---- MODULE Spec2Model ----
(***************************************************************************)
(* Protocol decoding layer of rtl_433: the device decoders under           *)
(* src/src/devices and the bit-row primitives they call.  A decode call    *)
(* is a step from "called" to "done"; the demodulator hands one packet     *)
(* (bitbuffer_t) to one decoder, the decoder returns an int and passes     *)
(* zero or more Readings (data_t lists) to decoder_output_data.            *)
(***************************************************************************)
EXTENDS Integers, Sequences, FiniteSets, TLC

VARIABLES
    pc,         \* position of the call: "idle", "called", "emit", "devid", "parse",
                \* "parsed", "done"
    decoder,    \* r_device the packet was handed to: [name, verbose]
    input,      \* the packet as the demodulator produced it
    bitbuffer,  \* the caller's packet as the decoder leaves it
    ret,        \* return value of the call
    fault,      \* "none", or the signal that ended the process during the call
    output,     \* Readings passed to decoder_output_data during the call
    cm,         \* locals of honeywell_cm921_decode / parse_msg
    did,        \* argument and result of decode_device_id
    tamper,     \* whether cm.packet is an accepted region with one byte replaced
    prim,       \* arguments and results of a bitbuffer function called on its own
    log,        \* whether the call has written diagnostic text
    loop,       \* the loop a call is in: [name, pos, iter, build]
    mqtt        \* the MQTT client, its connections and the last event handled

vars ==
    <<pc, decoder, input, bitbuffer, ret, fault, output, cm, did, tamper, prim, log, loop,
      mqtt>>

(***************************************************************************)
(* Bounds of the model.                                                    *)
(***************************************************************************)
\* largest number of residue bytes between the payload and the checksum
\* byte of a generated CM921 message
MaxResidue == 2

\* largest number of bytes before the checksum byte of a region of SpecSum
MaxSumBody == 2

\* largest number of logical bits of a Manchester code of SpecPrim
MaxManchesterBits == 4

(***************************************************************************)
(* C integer arithmetic on bytes.                                          *)
(***************************************************************************)
Pow2(n) == 2 ^ n

Shr(x, k) == x \div Pow2(k)

RECURSIVE BitAnd(_, _)
BitAnd(x, y) ==
    IF x = 0 \/ y = 0 THEN 0
    ELSE (x % 2) * (y % 2) + 2 * BitAnd(x \div 2, y \div 2)

RECURSIVE BitXor(_, _)
BitXor(x, y) ==
    IF x = 0 THEN y
    ELSE IF y = 0 THEN x
    ELSE ((x + y) % 2) + 2 * BitXor(x \div 2, y \div 2)

BitOr(x, y) == x + y - BitAnd(x, y)

U8(x) == x % 256

\* (int16_t)v, then >> 4 on the signed value: the sign bit is replicated
Int16(v) == IF v % 65536 >= 32768 THEN (v % 65536) - 65536 ELSE v % 65536

Sar(x, k) == IF x >= 0 THEN x \div Pow2(k) ELSE -(((-x) + Pow2(k) - 1) \div Pow2(k))

\* values of enum decode_return_codes (decoder.h)
DECODE_ABORT_LENGTH == -1
DECODE_ABORT_EARLY == -2
DECODE_FAIL_MIC == -3
DECODE_FAIL_SANITY == -4

RejectCodes == {DECODE_ABORT_EARLY, DECODE_ABORT_LENGTH, DECODE_FAIL_SANITY, DECODE_FAIL_MIC}

(***************************************************************************)
(* Bit rows.  A row is [len |-> bits_per_row, bytes |-> bb[row]]; the      *)
(* bytes of a bitbuffer past the ones written are zero.                    *)
(***************************************************************************)
EmptyRow == [len |-> 0, bytes |-> <<>>]

\* the element of a one-element set: Only({F(v) : v \in {e}}) is F(e) with e
\* evaluated once
Only(S) == CHOOSE x \in S : TRUE

RowByte(bytes, k) == IF k >= 0 /\ k < Len(bytes) THEN bytes[k + 1] ELSE 0

bitrow_get_bit(bytes, bit_idx) ==
    Shr(RowByte(bytes, bit_idx \div 8), 7 - (bit_idx % 8)) % 2

\* (bitrow[i >> 3] << (i & 7)) | (bitrow[(i >> 3) + 1] >> (8 - (i & 7)));
\* the two parts share no bit
bitrow_get_byte(bytes, bit_idx) ==
    U8(RowByte(bytes, bit_idx \div 8) * Pow2(bit_idx % 8))
    + Shr(RowByte(bytes, (bit_idx \div 8) + 1), 8 - (bit_idx % 8))

bitbuffer_add_bit(row, bit) ==
    LET col == row.len \div 8
        idx == row.len % 8
        v   == bit * Pow2(7 - idx)
    IN  [len   |-> row.len + 1,
         bytes |-> IF idx = 0 THEN Append(row.bytes, v)
                   ELSE [row.bytes EXCEPT ![col + 1] = BitOr(@, v)]]

Row(bytes, len) == [len |-> len, bytes |-> bytes]

\* the row bitbuffer_add_bit builds from a bit sequence
BitsToRow(bits) ==
    Only({ [len   |-> Len(v),
            bytes |-> [k \in 1..((Len(v) + 7) \div 8) |->
                         LET bit(i) == IF i <= Len(v) THEN v[i] ELSE 0
                         IN  128 * bit(8 * k - 7) + 64 * bit(8 * k - 6) + 32 * bit(8 * k - 5)
                             + 16 * bit(8 * k - 4) + 8 * bit(8 * k - 3) + 4 * bit(8 * k - 2)
                             + 2 * bit(8 * k - 1) + bit(8 * k)]] : v \in {bits} })

\* number of bytes that hold the bits of a row
RowCols(row) == (row.len + 7) \div 8

\* the first n bytes of a row
RowBytes(row, n) == [k \in 1..n |-> RowByte(row.bytes, k - 1)]

\* row r of a packet; rows past num_rows are empty
RowAt(bb, r) == IF r >= 0 /\ r < Len(bb) THEN bb[r + 1] ELSE EmptyRow

\* bitbuffer_extract_bytes: len bits from bit pos on, the last byte cut to
\* the bits asked for
bitbuffer_extract_bytes(row, pos, len) ==
    [k \in 1..((len + 7) \div 8) |->
        IF k * 8 <= len THEN bitrow_get_byte(row.bytes, pos + 8 * (k - 1))
        ELSE BitAnd(bitrow_get_byte(row.bytes, pos + 8 * (k - 1)),
                    Shr(65280, len % 8) % 256)]

\* bitbuffer_invert: every bit of every row complemented, the unused bits of
\* the last byte left 0
bitbuffer_invert(bb) ==
    [r \in DOMAIN bb |->
        [len   |-> bb[r].len,
         bytes |-> [k \in 1..RowCols(bb[r]) |->
                      IF k * 8 <= bb[r].len THEN 255 - RowByte(bb[r].bytes, k - 1)
                      ELSE BitAnd(255 - RowByte(bb[r].bytes, k - 1),
                                  Shr(65280, bb[r].len % 8) % 256)]]]

\* compare_rows: same length and the same bytes
compare_rows(bb, i, j) ==
    /\ bb[i].len = bb[j].len
    /\ RowBytes(bb[i], RowCols(bb[i])) = RowBytes(bb[j], RowCols(bb[j]))

\* the rows other than row i that equal it
count_other_rows(bb, i) == Cardinality({j \in DOMAIN bb : j # i /\ compare_rows(bb, i, j)})

count_repeats(bb, i) == Cardinality({j \in DOMAIN bb : compare_rows(bb, i, j)})

\* bitbuffer_find_repeated_row: the first row of at least min_bits bits that
\* occurs at least min_repeats times, -1 when there is none
bitbuffer_find_repeated_row(bb, min_repeats, min_bits) ==
    LET hits == {i \in DOMAIN bb : bb[i].len >= min_bits /\ count_repeats(bb, i) >= min_repeats}
    IN  IF hits = {} THEN -1
        ELSE (CHOOSE i \in hits : \A j \in hits : i <= j) - 1

\* xor_bytes: XOR of the first num_bytes bytes
RECURSIVE xor_bytes(_, _)
xor_bytes(message, num_bytes) ==
    IF num_bytes = 0 THEN 0
    ELSE BitXor(xor_bytes(message, num_bytes - 1), message[num_bytes])

\* the 8 shift steps crc8 makes for one byte
RECURSIVE crc8_shift(_, _, _)
crc8_shift(remainder, polynomial, bit) ==
    IF bit = 0 THEN remainder
    ELSE crc8_shift(IF remainder >= 128 THEN BitXor(U8(remainder * 2), polynomial)
                    ELSE U8(remainder * 2),
                    polynomial, bit - 1)

\* crc8: byte at a time, most significant bit first
RECURSIVE crc8_from(_, _, _, _, _)
crc8_from(message, byte, nBytes, polynomial, remainder) ==
    IF byte > nBytes THEN remainder
    ELSE crc8_from(message, byte + 1, nBytes, polynomial,
                   crc8_shift(BitXor(remainder, message[byte]), polynomial, 8))

crc8(message, nBytes, polynomial, init) == crc8_from(message, 1, nBytes, polynomial, init)

(***************************************************************************)
(* Readings: a data_t list is a sequence of [key, val].                    *)
(***************************************************************************)
DStr(s) == [type |-> "STRING", str |-> s, chars |-> <<>>, num |-> 0, den |-> 1]

DChars(cs) == [type |-> "STRING", str |-> "", chars |-> cs, num |-> 0, den |-> 1]

\* an int too wide for the model to hold as a number, as its hex digits
DHex(cs) == [type |-> "INT", str |-> "", chars |-> cs, num |-> 0, den |-> 1]

DInt(n) == [type |-> "INT", str |-> "", chars |-> <<>>, num |-> n, den |-> 1]

DDouble(n, d) == [type |-> "DOUBLE", str |-> "", chars |-> <<>>, num |-> n, den |-> d]

data_append(data, key, val) == Append(data, [key |-> key, val |-> val])

Keys(data) == {data[i].key : i \in DOMAIN data}

HasKey(data, k) == k \in Keys(data)

Field(data, k) == data[CHOOSE i \in DOMAIN data : data[i].key = k].val

HexDigit == <<"0", "1", "2", "3", "4", "5", "6", "7", "8", "9", "a", "b", "c", "d", "e", "f">>

\* "%02x" of one byte
Hex2(b) == <<HexDigit[(b \div 16) + 1], HexDigit[(b % 16) + 1]>>

HexOf(bytes) ==
    Only({ [i \in 1..(2 * Len(v)) |-> Hex2(v[(i + 1) \div 2])[((i - 1) % 2) + 1]] :
             v \in {bytes} })

\* hex(): the row's bytes, a partial last byte included
hex(row) ==
    LET lenB == (row.len \div 8) + (IF row.len % 8 # 0 THEN 1 ELSE 0)
    IN  HexOf([i \in 1..lenB |-> RowByte(row.bytes, i - 1)])

add_hex_string(data, name, buffer, buffer_length) ==
    IF buffer # <<>> /\ buffer_length > 0
    THEN data_append(data, name, DChars(HexOf(SubSeq(buffer, 1, buffer_length))))
    ELSE data

(***************************************************************************)
(* Honeywell CM921: message layer (honeywell_cm921.c).                     *)
(***************************************************************************)
device_map ==
    << [t |-> 1,  s |-> "CTL"], [t |-> 2,  s |-> "UFH"], [t |-> 3,  s |-> " 30"],
       [t |-> 4,  s |-> "TRV"], [t |-> 7,  s |-> "DHW"], [t |-> 10, s |-> "OTB"],
       [t |-> 12, s |-> "THm"], [t |-> 13, s |-> "BDR"], [t |-> 17, s |-> " 17"],
       [t |-> 18, s |-> "HGI"], [t |-> 22, s |-> "THM"], [t |-> 30, s |-> "GWY"],
       [t |-> 32, s |-> "VNT"], [t |-> 34, s |-> "STA"], [t |-> 63, s |-> "NUL"] >>

\* the loop over device_map: the last matching entry wins
RECURSIVE dev_name_scan(_, _, _)
dev_name_scan(dev_type, i, dev_name) ==
    IF i > Len(device_map) THEN dev_name
    ELSE dev_name_scan(dev_type, i + 1,
                       IF device_map[i].t = dev_type THEN device_map[i].s ELSE dev_name)

\* "%06d": at least six decimal digits, zero padded
RECURSIVE DecDigits(_, _)
DecDigits(n, width) ==
    IF width <= 0 /\ n = 0 THEN <<>>
    ELSE Append(DecDigits(n \div 10, width - 1), HexDigit[(n % 10) + 1])

\* type >> 4 instead of >> 2
decode_device_id_nibble(device_id) ==
    LET dev_type == Shr(device_id[1], 4)
        dev_name == dev_name_scan(dev_type, 1, " --")
        serial   == BitOr(BitOr(BitAnd(device_id[1], 3) * 65536, device_id[2] * 256),
                          device_id[3])
    IN  <<dev_name, ":">> \o DecDigits(serial, 6)

\* the string "%3s:%06d" as <<tag, ":", digit, ...>>
decode_device_id(device_id) ==
    LET dev_type == Shr(device_id[1], 2)
        dev_name == dev_name_scan(dev_type, 1, " --")
        serial   == BitOr(BitOr(BitAnd(device_id[1], 3) * 65536, device_id[2] * 256),
                          device_id[3])
    IN  <<dev_name, ":">> \o DecDigits(serial, 6)

RECURSIVE device_ids_str(_, _, _)
device_ids_str(msg, i, style) ==
    IF i >= msg.num_device_ids THEN <<>>
    ELSE (IF i # 0 THEN <<" ">> ELSE <<>>)
         \o (IF style = 0 THEN decode_device_id(msg.device_id[i + 1])
             ELSE HexOf(msg.device_id[i + 1]))
         \o device_ids_str(msg, i + 1, style)

decode_device_ids(msg, data, style) ==
    data_append(data, "Device IDs", DChars(device_ids_str(msg, 0, style)))

\* the parameter loop of command 0x1030
RECURSIVE x1030_params(_, _, _)
x1030_params(msg, data, i) ==
    IF i >= 5 THEN data
    ELSE LET p     == msg.payload[1 + 3 * i + 1]
             value == msg.payload[1 + 3 * i + 2 + 1]
             d     == IF p = 200 THEN data_append(data, "max_flow_temp", DInt(value))
                      ELSE IF p = 201 THEN data_append(data, "pump_run_time", DInt(value))
                      ELSE IF p = 202 THEN data_append(data, "actuator_run_time", DInt(value))
                      ELSE IF p = 203 THEN data_append(data, "min_flow_temp", DInt(value))
                      ELSE data
         IN  x1030_params(msg, d, i + 1)

\* UNKNOWN_IF appends nothing
Unknown_silent(msg, data) == data

\* the macro UNKNOWN_IF's return value
Unknown(msg, data) == data_append(data, "unknown", DInt(msg.command))

\* the setpoint bytes taken low byte first
case_0x2309_swapped(msg, data) ==
    IF msg.payload_length # 3 THEN Unknown(msg, data)
    ELSE data_append(data_append(data, "zone", DInt(msg.payload[1])),
                     "setpoint", DDouble(BitOr(msg.payload[3] * 256, msg.payload[2]), 100))

\* case 0x2309 of interpret_message
case_0x2309(msg, data) ==
    IF msg.payload_length # 3 THEN Unknown(msg, data)
    ELSE data_append(data_append(data, "zone", DInt(msg.payload[1])),
                     "setpoint", DDouble(BitOr(msg.payload[2] * 256, msg.payload[3]), 100))

interpret_message(msg, data0, bitfield_lsb) ==
    LET data == decode_device_ids(msg, data0, 1)
        P(i) == msg.payload[i + 1]
        len  == msg.payload_length
        cmd  == msg.command
    IN  IF cmd = 4144 THEN      \* 0x1030
            IF len # 16 THEN Unknown(msg, data)
            ELSE x1030_params(msg, data_append(data, "zone_idx", DInt(P(0))), 0)
        ELSE IF cmd = 12607 THEN \* 0x313F
            IF len # 1 /\ len # 9 THEN Unknown(msg, data)
            ELSE IF len = 1 THEN data_append(data, "time_request", DInt(P(0)))
            ELSE LET hour == IF bitfield_lsb THEN P(4) % 32 ELSE Shr(P(4), 3)
                 IN  data_append(data, "time",
                        DChars(DecDigits(hour, 2) \o <<":">> \o DecDigits(P(3), 2)
                               \o <<":">> \o DecDigits(P(2), 2) \o <<" ">>
                               \o DecDigits(P(5), 2) \o <<"-">> \o DecDigits(P(6), 2)
                               \o <<"-">> \o DecDigits(BitOr(P(7) * 256, P(8)), 4)))
        ELSE IF cmd = 8 THEN     \* 0x0008
            IF len # 2 THEN Unknown(msg, data)
            ELSE data_append(data_append(data, "domain_id", DInt(P(0))),
                             "demand", DDouble(P(1), 200))
        ELSE IF cmd = 16112 THEN \* 0x3ef0
            IF len # 3 /\ len # 6 THEN Unknown(msg, data)
            ELSE IF len = 3 THEN data_append(data, "status", DDouble(P(1), 200))
            ELSE data_append(data_append(data, "boiler_modulation_level", DDouble(P(1), 200)),
                             "flame_status", DInt(P(3)))
        ELSE IF cmd = 8969 THEN  \* 0x2309
            case_0x2309(msg, data)
        ELSE IF cmd = 4352 THEN  \* 0x1100
            IF len # 5 /\ len # 8 THEN Unknown(msg, data)
            ELSE LET d4 == data_append(data_append(data_append(data_append(data,
                               "domain_id", DInt(P(0))),
                               "cycle_rate", DDouble(P(1), 4)),
                               "minimum_on_time", DDouble(P(2), 4)),
                               "minimum_off_time", DDouble(P(3), 4))
                 IN  IF len = 8
                     THEN data_append(d4, "proportional_band_width",
                                      DDouble(BitOr(P(5) * 256, P(6)), 100))
                     ELSE d4
        ELSE IF cmd = 9 THEN     \* 0x0009
            IF len # 3 THEN Unknown(msg, data)
            ELSE data_append(data_append(data, "device_number", DInt(P(0))),
                             "failsafe_mode",
                             DStr(IF P(1) = 0 THEN "off"
                                  ELSE IF P(1) = 1 THEN "20-80" ELSE "unknown"))
        ELSE IF cmd = 15104 THEN \* 0x3B00
            IF len # 2 THEN Unknown(msg, data)
            ELSE data_append(data_append(data, "domain_id", DInt(P(0))),
                             "state", DDouble(P(1), 200))
        ELSE Unknown(msg, data)

(***************************************************************************)
(* parse_msg.  abi is the build: it evaluates the two next() calls of the  *)
(* command expression in either order (lhs_first) and lays bit-fields out  *)
(* from either end (bitfield_lsb).  A read at bit offset                   *)
(* (unsigned)(len - 8) of a row shorter than 8 bits, and the extraction of *)
(* about 2^32 residue bits, are wild accesses: the process is ended by a   *)
(* signal (wild < 0) or goes on, the read giving the byte wild.            *)
(***************************************************************************)
\* memset(msg, 0, sizeof(message_t))
ZeroMsg ==
    [header |-> 0, num_device_ids |-> 0, device_id |-> <<>>, command |-> 0,
     payload_length |-> 0, payload |-> <<>>, unparsed_length |-> 0,
     unparsed |-> <<>>, crc |-> 0]

\* next(): the byte at *ipos, or (uint8_t)DECODE_FAIL_SANITY once *ipos + 8
\* reaches the end of the row's whole bytes; *ipos advances by 8 either way
next(bb, ipos, num_bytes) ==
    LET r == bitrow_get_byte(bb, ipos)
    IN  [ipos |-> ipos + 8,
         r    |-> IF ipos + 8 >= num_bytes * 8 THEN U8(DECODE_FAIL_SANITY) ELSE r]

\* the results of count successive next() calls, the first at ipos
next_n(bb, ipos, num_bytes, count) ==
    [k \in 1..count |-> next(bb, ipos + 8 * (k - 1), num_bytes).r]

\* the sum loop stops one byte early
RECURSIVE byte_sum_short(_, _, _)
byte_sum_short(bb, i, num_bytes) ==
    IF i >= num_bytes - 1 THEN 0
    ELSE U8(bitrow_get_byte(bb, i * 8) + byte_sum_short(bb, i + 1, num_bytes))

\* bsum of parse_msg: uint8_t sum of bytes i..num_bytes-1
RECURSIVE byte_sum(_, _, _)
byte_sum(bb, i, num_bytes) ==
    IF i >= num_bytes THEN 0
    ELSE U8(bitrow_get_byte(bb, i * 8) + byte_sum(bb, i + 1, num_bytes))

\* (n / 8) + (n % 8) ? 1 : 0 on the unsigned n; a negative argument stands
\* for the unsigned value 2^32 + n
unparsed_len(num_unparsed_bits) ==
    IF num_unparsed_bits < 0 THEN 1
    ELSE IF (num_unparsed_bits \div 8) + (num_unparsed_bits % 8) # 0 THEN 1 ELSE 0

\* bitbuffer_extract_bytes into the residue buffer: the first byte, cut to
\* the bits asked for
first_unparsed(bb, ipos, nub) ==
    IF nub < 0 \/ nub >= 8 THEN bitrow_get_byte(bb, ipos)
    ELSE BitAnd(bitrow_get_byte(bb, ipos), Shr(65280, nub) % 256)

parse_msg(bmsg, abi) ==
    LET num_bytes   == bmsg.len \div 8
        bb          == bmsg.bytes
        checksum_ok == byte_sum(bb, 0, num_bytes) = 0
        wild1       == bmsg.len < 8
        crc         == IF wild1 THEN abi.wild ELSE bitrow_get_byte(bb, bmsg.len - 8)
    IN  IF wild1 /\ abi.wild < 0
        THEN [rc |-> 0, fault |-> "SIGSEGV", ipos |-> 0, checksum_ok |-> checksum_ok,
              msg |-> ZeroMsg]
        ELSE IF ~checksum_ok
        THEN [rc |-> 0, fault |-> "none", ipos |-> 0, checksum_ok |-> FALSE,
              msg |-> [ZeroMsg EXCEPT !.crc = crc]]
        ELSE
        LET header == next(bb, 0, num_bytes).r
            n      == BitAnd(Shr(header, 2), 3)
            ids    == [i \in 1..n |-> next_n(bb, 8 + 24 * (i - 1), num_bytes, 3)]
            ipos1  == 8 + 24 * n
            first  == next(bb, ipos1, num_bytes).r
            second == next(bb, ipos1 + 8, num_bytes).r
            cmd    == IF abi.lhs_first THEN BitOr(first * 256, second)
                      ELSE BitOr(second * 256, first)
            plen   == next(bb, ipos1 + 16, num_bytes).r
            ipos2  == ipos1 + 24
            pl     == next_n(bb, ipos2, num_bytes, plen)
            ipos   == ipos2 + 8 * plen
            nub    == (bmsg.len - 8) - ipos
            ulen   == unparsed_len(nub)
            wild2  == nub < 0
            m      == [header |-> header, num_device_ids |-> n, device_id |-> ids,
                       command |-> cmd, payload_length |-> plen, payload |-> pl,
                       unparsed_length |-> ulen,
                       unparsed |-> IF ulen # 0
                                    THEN <<first_unparsed(bb, ipos, nub)>> ELSE <<>>,
                       crc |-> crc]
        IN  IF wild2 /\ abi.wild < 0
            THEN [rc |-> 0, fault |-> "SIGSEGV", ipos |-> ipos, checksum_ok |-> TRUE,
                  msg |-> m]
            ELSE [rc |-> 1, fault |-> "none", ipos |-> ipos, checksum_ok |-> TRUE,
                  msg |-> m]

\* lines 384-410 of honeywell_cm921_decode: build the Reading from the
\* Manchester-decoded packet and pass it to decoder_output_data
cm921_emit(packet, man_errors, abi) ==
    Only({
    LET data0 == <<[key |-> "model", val |-> DStr("Honeywell CM921")],
                   [key |-> "Packet", val |-> DChars(hex(packet))]>>
        m     == p.msg
        data1 == IF p.rc = 1 THEN interpret_message(m, data0, abi.bitfield_lsb) ELSE data0
        data2 == add_hex_string(data1, "Header", <<m.header>>, 1)
        data3 == add_hex_string(data2, "Command", <<Shr(m.command, 8), m.command % 256>>, 2)
        data4 == add_hex_string(data3, "Payload", m.payload, m.payload_length)
        data5 == add_hex_string(data4, "Unparsed", m.unparsed, m.unparsed_length)
        data6 == add_hex_string(data5, "CRC", <<m.crc>>, 1)
        data7 == data_append(data6, "# man errors", DInt(man_errors))
        dead  == p.fault # "none"
    IN  [parse  |-> p,
         fault  |-> p.fault,
         ret    |-> IF dead THEN 0 ELSE 1,
         output |-> IF dead THEN <<>> ELSE <<data7>>] : p \in {parse_msg(packet, abi)} })

(***************************************************************************)
(* Honeywell CM921: framing layer of honeywell_cm921_decode.               *)
(***************************************************************************)
\* bit k of a byte pattern
PatternBit(pattern, k) == bitrow_get_bit(pattern, k)

\* bitbuffer_search: the first position at or after start where the pattern
\* matches inside the row, the row's length when there is none
bitbuffer_search(row, start, pattern, pattern_bits_len) ==
    LET hits == {p \in start..(row.len - pattern_bits_len) :
                    \A k \in 0..(pattern_bits_len - 1) :
                        bitrow_get_bit(row.bytes, p + k) = PatternBit(pattern, k)}
    IN  IF hits = {} THEN row.len
        ELSE CHOOSE p \in hits : \A q \in hits : p <= q

\* the 8 data bits of a group, most significant first
RECURSIVE data_bits(_, _, _, _)
data_bits(bytes, pos, i, out) ==
    IF i >= 8 THEN out
    ELSE data_bits(bytes, pos + 1, i + 1, U8(out * 2) + bitrow_get_bit(bytes, pos))

get_byte(row, pos, end) ==
    IF pos >= end THEN [rc |-> DECODE_ABORT_LENGTH, out |-> 0]
    ELSE IF bitrow_get_bit(row.bytes, pos) # 0 THEN [rc |-> DECODE_FAIL_SANITY, out |-> 0]
    ELSE IF pos + 1 + 8 >= end THEN [rc |-> DECODE_ABORT_LENGTH, out |-> 0]
    ELSE LET out == data_bits(row.bytes, pos + 1, 0, 0)
         IN  IF pos + 9 >= end THEN [rc |-> DECODE_ABORT_LENGTH, out |-> out]
             ELSE IF bitrow_get_bit(row.bytes, pos + 9) # 1
                  THEN [rc |-> DECODE_FAIL_SANITY, out |-> out]
             ELSE IF pos + 10 >= end THEN [rc |-> DECODE_ABORT_LENGTH, out |-> out]
             ELSE [rc |-> 10, out |-> out]

\* for i in 0..7: bitbuffer_add_bit(&bytes, (byte >> i) & 1)
RECURSIVE add_byte_lsb_first(_, _, _)
add_byte_lsb_first(bytes, byte, i) ==
    IF i >= 8 THEN bytes
    ELSE Only({ add_byte_lsb_first(added, byte, i + 1) :
                  added \in {bitbuffer_add_bit(bytes, Shr(byte, i) % 2)} })

\* the frame-stripping loop: [bytes, rc of the last get_byte, pos].  Group
\* g starts at pos + 10 * g; the loop ends at the first group that starts at
\* or behind end or whose get_byte does not return 10
strip_frames(row, pos, end, bytes) ==
    LET groups == {g \in 0..((end - pos) \div 10) : pos + 10 * g < end}
        broken == {g \in groups : get_byte(row, pos + 10 * g, end).rc # 10}
        n      == IF broken = {} THEN Cardinality(groups)
                  ELSE CHOOSE g \in broken : \A h \in broken : g <= h
        added  == [k \in 1..n |->
                     add_byte_lsb_first(EmptyRow, get_byte(row, pos + 10 * (k - 1), end).out,
                                        0).bytes[1]]
    IN  [bytes |-> [len |-> bytes.len + 8 * n, bytes |-> bytes.bytes \o added],
         rc    |-> IF broken = {} THEN 10 ELSE get_byte(row, pos + 10 * n, end).rc,
         pos   |-> pos + 10 * n]

\* the scan reports a filler byte whether it has met one or not
RECURSIVE footer_scan_lenient(_, _, _)
footer_scan_lenient(bytes, fi, seen_aa) ==
    IF bitrow_get_byte(bytes, fi) = 85 THEN footer_scan_lenient(bytes, fi - 8, 1)
    ELSE [fi |-> fi, seen_aa |-> 1]

\* the backward scan over 0x55 filler bytes
RECURSIVE footer_scan(_, _, _)
footer_scan(bytes, fi, seen_aa) ==
    IF bitrow_get_byte(bytes, fi) = 85 THEN footer_scan(bytes, fi - 8, 1)
    ELSE [fi |-> fi, seen_aa |-> seen_aa]

\* the decoder with the other pair mapping: 01 -> 1, 10 -> 0
bitbuffer_manchester_decode_ieee(row, start, max) ==
    LET len    == IF max # 0 /\ row.len > start + max * 2 THEN start + max * 2 ELSE row.len
        npairs == IF len > start THEN (len - start + 1) \div 2 ELSE 0
        bit1(k) == bitrow_get_bit(row.bytes, start + 2 * k)
        bit2(k) == bitrow_get_bit(row.bytes, start + 2 * k + 1)
        broken == {k \in 0..(npairs - 1) : bit1(k) = bit2(k)}
        n      == IF broken = {} THEN npairs
                  ELSE CHOOSE k \in broken : \A h \in broken : k <= h
    IN  [pos |-> IF broken = {} THEN start + 2 * npairs ELSE start + 2 * (n + 1),
         out |-> BitsToRow([k \in 1..n |-> bit2(k - 1)])]

\* bitbuffer_manchester_decode: pairs 10 -> 1, 01 -> 0, from start, at most
\* max logical bits; stops behind the first pair that is neither; returns
\* the position reached in the input row
bitbuffer_manchester_decode(row, start, max) ==
    LET len    == IF max # 0 /\ row.len > start + max * 2 THEN start + max * 2 ELSE row.len
        npairs == IF len > start THEN (len - start + 1) \div 2 ELSE 0
        bit1(k) == bitrow_get_bit(row.bytes, start + 2 * k)
        bit2(k) == bitrow_get_bit(row.bytes, start + 2 * k + 1)
        broken == {k \in 0..(npairs - 1) : bit1(k) = bit2(k)}
        n      == IF broken = {} THEN npairs
                  ELSE CHOOSE k \in broken : \A h \in broken : k <= h
    IN  [pos |-> IF broken = {} THEN start + 2 * npairs ELSE start + 2 * (n + 1),
         out |-> BitsToRow([k \in 1..n |-> bit1(k - 1)])]

CmNone ==
    [strip_rc |-> 0, bytes |-> EmptyRow, fi |-> 0, packet |-> EmptyRow,
     man_errors |-> 0,
     parse |-> [rc |-> 0, fault |-> "none", ipos |-> 0, checksum_ok |-> FALSE,
                msg |-> ZeroMsg]]

Rejected(code, c) == [ret |-> code, fault |-> "none", output |-> <<>>, cm |-> c]

preamble_pattern == <<85, 95, 240, 4>>

\* the pair the decoder stopped behind is counted as decoded
man_errors_stop_pair_decoded(num_bits, fpos, first_byte) == num_bits - (fpos - first_byte)

\* man_errors = num_bits - (fpos - first_byte - 2)
man_errors(num_bits, fpos, first_byte) == num_bits - (fpos - first_byte - 2)

honeywell_cm921_decode(bb, abi) ==
    LET row0 == RowAt(bb, 0)
    IN  IF Len(bb) # 1 \/ row0.len < 60 THEN Rejected(DECODE_ABORT_LENGTH, CmNone)
        ELSE Only({
        LET start == preamble_start + 30
            len   == row0.len - start
            end   == start + len
        IN  IF len < 8 THEN Rejected(DECODE_ABORT_LENGTH, CmNone)
            ELSE Only({
            LET bytes == st.bytes
                c1    == [CmNone EXCEPT !.strip_rc = st.rc, !.bytes = bytes]
            IN  IF bitrow_get_byte(bytes.bytes, 0) # 51
                   \/ bitrow_get_byte(bytes.bytes, 8) # 85
                   \/ bitrow_get_byte(bytes.bytes, 16) # 83
                THEN Rejected(DECODE_FAIL_SANITY, c1)
                ELSE Only({
                LET c2       == [c1 EXCEPT !.fi = f.fi]
                    num_bits == f.fi - 24
                IN  IF f.seen_aa = 0 \/ bitrow_get_byte(bytes.bytes, f.fi) # 53
                    THEN Rejected(DECODE_FAIL_SANITY, c2)
                    ELSE Only({
                    LET errors == man_errors(num_bits, md.pos, 24)
                    IN  Only({ [ret |-> e.ret, fault |-> e.fault, output |-> e.output,
                                cm  |-> [c2 EXCEPT !.packet = md.out,
                                                   !.man_errors = errors,
                                                   !.parse = e.parse]] :
                               e \in {cm921_emit(md.out, errors, abi)} }) :
                    md \in {bitbuffer_manchester_decode(bytes, 24, num_bits)} }) :
                f \in {footer_scan(bytes.bytes, bytes.len - 8, 0)} }) :
            st \in {strip_frames(row0, start, end, EmptyRow)} }) :
        preamble_start \in {bitbuffer_search(row0, 0, preamble_pattern, 30)} })

(***************************************************************************)
(* The other decoders.  A decode function yields [ret, fault, output]:     *)
(* the value returned, the signal that ended the process if one did, and   *)
(* the Readings passed to decoder_output_data.                             *)
(***************************************************************************)
KV(key, val) == [key |-> key, val |-> val]

\* a return without a Reading
Returned(code) == [ret |-> code, fault |-> "none", output |-> <<>>]

\* the Reading is passed on and a rejection code returned
Emitted_rejecting(data) == [ret |-> DECODE_FAIL_SANITY, fault |-> "none", output |-> <<data>>]

\* the Reading is passed on without its first field
Emitted_headless(data) == [ret |-> 1, fault |-> "none", output |-> <<Tail(data)>>]

\* decoder_output_data(decoder, data); return 1;
Emitted(data) == [ret |-> 1, fault |-> "none", output |-> <<data>>]

HouseLetters ==
    <<"A", "B", "C", "D", "E", "F", "G", "H", "I", "J", "K", "L", "M", "N", "O", "P">>

arrbKnownConstBitMask == <<11, 11, 7, 7>>

arrbKnownConstBitValue == <<0, 11, 0, 7>>

x10_rf_callback(bb) ==
    LET row  == RowAt(bb, 1)
        b(i) == RowByte(row.bytes, i)
    IN  IF row.len # 32 THEN Returned(DECODE_ABORT_LENGTH)
        ELSE IF BitXor(b(0), b(1)) # 255 \/ BitXor(b(2), b(3)) # 255
        THEN Returned(DECODE_FAIL_SANITY)
        ELSE IF \E bIdx \in 0..3 :
                   BitAnd(arrbKnownConstBitMask[bIdx + 1], b(bIdx))
                       # arrbKnownConstBitValue[bIdx + 1]
        THEN Returned(DECODE_FAIL_SANITY)
        ELSE
        LET h0 == Shr(b(0), 7) % 2
            h1 == Shr(b(0), 6) % 2
            h2 == Shr(b(0), 5) % 2
            h3 == Shr(b(0), 4) % 2
            bHouseCode == ((1 - BitXor(h0, h1)) * 8) + ((1 - h1) * 4) + (BitXor(h1, h2) * 2) + h3
            unit == BitOr(BitOr(BitOr(BitAnd(b(0), 4) * 2, Shr(BitAnd(b(2), 64), 4)),
                                Shr(BitAnd(b(2), 8), 2)),
                          Shr(BitAnd(b(2), 16), 4)) + 1
            dim  == BitAnd(b(2), 128) = 128
            bDeviceCode == IF dim THEN 0 ELSE unit
            state == BitAnd(b(2), 32) = 0
            event_str == IF dim THEN (IF BitAnd(b(2), 16) = 16 THEN "DIM" ELSE "BRI")
                         ELSE IF state THEN "ON" ELSE "OFF"
        IN  Emitted(<<KV("model", DStr("X10-RF")),
                      KV("id", DInt(bDeviceCode)),
                      KV("channel", DStr(HouseLetters[bHouseCode + 1])),
                      KV("state", DStr(event_str)),
                      KV("data", DHex(HexOf(<<b(0), b(1), b(2), b(3)>>)))>>)

x10_sec_event(code) ==
    IF code = 0 \/ code = 4 THEN "DS10A DOOR/WINDOW OPEN"
    ELSE IF code = 128 \/ code = 132 THEN "DS10A DOOR/WINDOW CLOSED"
    ELSE IF code = 6 THEN "KR10A KEY-FOB ARM"
    ELSE IF code = 12 THEN "MS10A MOTION TRIPPED"
    ELSE IF code = 70 THEN "KR10A KEY-FOB LIGHTS-ON"
    ELSE IF code = 130 THEN "SH624 SEC-REMOTE DISARM"
    ELSE IF code = 134 THEN "KR10A KEY-FOB DISARM"
    ELSE IF code = 136 THEN "KR15A PANIC"
    ELSE IF code = 140 THEN "MS10A MOTION READY"
    ELSE IF code = 152 THEN "KR15A PANIC-3SECOND"
    ELSE IF code = 198 THEN "KR10A KEY-FOB LIGHTS-OFF"
    ELSE "UNKNOWN"

\* the row loop of x10_sec_callback from row r on
RECURSIVE x10_sec_rows(_, _)
x10_sec_rows(bb, r) ==
    IF r >= Len(bb) THEN Returned(DECODE_ABORT_EARLY)
    ELSE
    LET row  == RowAt(bb, r)
        b(i) == RowByte(row.bytes, i)
    IN  IF row.len < 40 THEN x10_sec_rows(bb, r + 1)
        ELSE IF BitXor(b(0), b(1)) # 15 \/ BitXor(b(2), b(3)) # 255
        THEN x10_sec_rows(bb, r + 1)
        ELSE
        LET battery_low == b(2) % 2
            code  == BitAnd(b(2), 254)
            delay == IF code \in {0, 4, 128, 132}
                     THEN (IF BitAnd(b(2), 4) = 0 THEN 1 ELSE 0) ELSE 0
            data0 == <<KV("model", DStr("X10-Security")),
                       KV("id", DChars(Hex2(b(0)) \o Hex2(b(4)))),
                       KV("code", DChars(Hex2(b(2)))),
                       KV("event", DStr(x10_sec_event(code)))>>
            data1 == IF delay # 0 THEN data_append(data0, "delay", DInt(delay)) ELSE data0
            data2 == IF battery_low # 0 THEN data_append(data1, "battery_ok", DInt(0))
                     ELSE data1
        IN  Emitted(data2)

x10_sec_callback(bb) == x10_sec_rows(bb, 0)

\* auriol_afw2a1_decode; b_wild is what bb[-1] holds when the repeated-row
\* search has found nothing.  humidity_rel is declared nowhere: the humidity
\* computed in the function stands for it.
auriol_afw2a1_decode(bb, b_wild) ==
    Only({
        IF Len(bb) # 12 THEN Returned(DECODE_ABORT_EARLY)
        ELSE IF \E r \in 0..11 : RowAt(bb, r).len # 36 THEN Returned(DECODE_ABORT_LENGTH)
        ELSE
        LET bytes    == IF row < 0 THEN b_wild ELSE RowAt(bb, row).bytes
            b(i)     == RowByte(bytes, i)
            id       == b(0)
            channel  == Shr(b(1), 4)
            temp_raw == Int16(BitOr(BitAnd(b(1), 15) * 4096, b(2) * 16))
            temp_c10 == Sar(temp_raw, 4)
            humidity == BitOr(BitAnd(b(3), 15) * 16, Shr(b(4), 4))
        IN  IF Shr(b(3), 4) # 10 THEN Returned(DECODE_FAIL_SANITY)
            ELSE IF channel \in {3, 7, 11, 15} \/ humidity > 100 \/ humidity < 0
                    \/ temp_c10 <= -511 \/ temp_c10 >= 767
            THEN Returned(DECODE_FAIL_SANITY)
            ELSE
            LET battery_low == IF channel < 8 THEN 1 ELSE 0
                tx_button   == IF channel \in {4, 5, 6, 12, 13, 14} THEN 1 ELSE 0
            IN  Emitted(<<KV("model", DStr("Auriol-AFW2A1")),
                          KV("id", DInt(id)),
                          KV("channel", DInt((channel % 4) + 1)),
                          KV("battery", DStr(IF battery_low # 0 THEN "LOW" ELSE "OK")),
                          KV("button", DStr(IF tx_button # 0 THEN "true" ELSE "false")),
                          KV("temperature_C", DDouble(temp_c10, 10)),
                          KV("humidity", DDouble(humidity, 1))>>) :
    row \in {bitbuffer_find_repeated_row(bb, 12, 36)} })

wind_dir_degr == <<0, 23, 45, 68, 90, 113, 135, 158, 180, 203, 225, 248, 270, 293, 315, 338>>

holman_pcm_preamble == <<170, 170, 170, 152, 243, 165>>

\* the check with the whole of byte 12
holman_pcm_checksum_whole_byte(b) == xor_bytes(b, 12) = b[13]

\* "lower nibble match xor": the check that byte 12 agrees with the XOR of
\* bytes 0..11
holman_pcm_checksum(b) == BitAnd(xor_bytes(b, 12), 15) = BitAnd(b[13], 15)

holman_ws5029pcm_decode(bb) ==
    LET row0 == RowAt(bb, 0)
        bits == row0.len
    IN  IF Len(bb) # 1 THEN Returned(DECODE_ABORT_EARLY)
        ELSE IF bits < 192 THEN Returned(DECODE_ABORT_LENGTH)
        ELSE Only({
            IF pos >= bits THEN Returned(DECODE_ABORT_EARLY)
            ELSE Only({
            LET b(i) == bx[i + 1]
            IN  IF ~holman_pcm_checksum(bx)
                THEN Returned(DECODE_FAIL_MIC)
                ELSE
                LET device_id == BitOr(b(0) * 256, b(1))
                    temp_raw  == Int16(BitOr(b(2) * 256, BitAnd(b(3), 240)))
                    temp_c10  == Sar(temp_raw, 4)
                    humidity  == BitOr(BitAnd(b(3), 15) * 16, Shr(BitAnd(b(4), 240), 4))
                    rain_raw  == BitOr(BitAnd(b(4), 15) * 256, b(5))
                    speed_kmh == b(6)
                    direction_deg == wind_dir_degr[Shr(BitAnd(b(7), 240), 4) + 1]
                    common(model) ==
                        <<KV("model", DStr(model)),
                          KV("id", DInt(device_id)),
                          KV("temperature_C", DDouble(temp_c10, 10)),
                          KV("humidity", DInt(humidity))>>
                IN  IF bits < 200
                    THEN Emitted(common("Holman-WS5029")
                                 \o <<KV("rain_mm", DDouble(rain_raw * 79, 100)),
                                      KV("wind_avg_km_h", DInt(speed_kmh)),
                                      KV("wind_dir_deg", DInt(direction_deg))>>)
                    ELSE IF bits < 220
                    THEN LET uv_index    == BitOr(BitAnd(b(7), 7) * 2, Shr(BitAnd(b(8), 128), 7))
                             light_lux   == BitOr(BitOr(BitAnd(b(8), 127) * 1024, b(9) * 4),
                                                  Shr(BitAnd(b(10), 192), 6))
                             battery_low == Shr(BitAnd(b(10), 48), 4)
                             counter     == BitOr(BitAnd(b(10), 15) * 256, b(11))
                         IN  Emitted(common("AOK-5056")
                                     \o <<KV("rain_mm", DDouble(rain_raw, 1)),
                                          KV("wind_avg_km_h", DInt(speed_kmh)),
                                          KV("wind_dir_deg", DInt(direction_deg)),
                                          KV("uv", DInt(uv_index)),
                                          KV("light_lux", DInt(light_lux)),
                                          KV("counter", DInt(counter)),
                                          KV("battery_ok",
                                             DInt(IF battery_low = 0 THEN 1 ELSE 0))>>)
                    ELSE Returned(0) :
            bx \in {bitbuffer_extract_bytes(row0, pos + 48, 144)} }) :
        pos \in {bitbuffer_search(row0, 0, holman_pcm_preamble, 48)} })

holman_pwm_preamble == <<85, 90, 103>>

\* the low nibble of the XOR of the row as received is 0
holman_pwm_checksum_as_received(b) == BitAnd(xor_bytes(b, 11), 15) = 0

\* (xor_bytes(b, 11) & 0xF) ^ 0xF is 0: the check passes
holman_pwm_checksum(b) == BitXor(BitAnd(xor_bytes(b, 11), 15), 15) = 0

\* holman_ws5029pwm_decode: [ret, fault, output, bitbuffer]; b points into
\* the packet, so the fields are read from the inverted row
holman_ws5029pwm_decode(bb) ==
    Only({
    LET keep(res) == [ret |-> res.ret, fault |-> res.fault, output |-> res.output,
                      bitbuffer |-> bb]
    IN  IF r < 0 \/ RowAt(bb, r).len # 96 THEN keep(Returned(DECODE_ABORT_LENGTH))
        ELSE IF RowBytes(RowAt(bb, r), 3) # holman_pwm_preamble
        THEN keep(Returned(DECODE_FAIL_SANITY))
        ELSE IF ~holman_pwm_checksum(RowBytes(RowAt(bb, r), 11))
        THEN keep(Returned(DECODE_FAIL_MIC))
        ELSE Only({
        LET b(i) == RowByte(RowAt(inv, r).bytes, i)
            id          == b(3)
            battery_low == BitAnd(b(4), 128)
            temp_raw    == BitOr(BitAnd(b(4), 15) * 4096, b(5) * 16) % 65536
            temp_c10    == Shr(temp_raw, 4)
            humidity    == b(6)
            rain        == (b(7) * 16) + Shr(b(8), 4)
            speed_kmh   == (BitAnd(b(8), 15) * 16) + Shr(b(9), 4)
            wind_dir    == BitAnd(b(9), 15)
            res == Emitted(<<KV("model", DStr("Holman-WS5029")),
                             KV("id", DInt(id)),
                             KV("battery_ok", DInt(IF battery_low = 0 THEN 1 ELSE 0)),
                             KV("temperature_C", DDouble(temp_c10, 10)),
                             KV("humidity", DInt(humidity)),
                             KV("rain_mm", DDouble(rain * 79, 100)),
                             KV("wind_avg_km_h", DInt(speed_kmh)),
                             KV("wind_dir_deg", DInt((wind_dir * 45) \div 2)),
                             KV("mic", DStr("CHECKSUM"))>>)
        IN  [ret |-> res.ret, fault |-> res.fault, output |-> res.output, bitbuffer |-> inv] :
        inv \in {bitbuffer_invert(bb)} }) :
    r \in {bitbuffer_find_repeated_row(bb, 3, 96)} })

infactory_callback(bb) ==
    LET row0 == RowAt(bb, 0)
        b(i) == RowByte(row0.bytes, i)
    IN  IF row0.len # 40 THEN Returned(0)
        ELSE
        LET id       == b(0)
            humidity == (BitAnd(b(3), 15) * 10) + Shr(b(4), 4)
            temp     == BitOr(b(2) * 16, Shr(b(3), 4))
        IN  Emitted(<<KV("model", DStr("inFactory sensor")),
                      KV("id", DInt(id)),
                      KV("temperature_F", DDouble(temp - 900, 10)),
                      KV("humidity", DInt(humidity))>>)

\* calibeur_rf104_callback; the Reading goes to data_acquired_handler
\* the validation without the comparison of rows 1 and 2
calibeur_validate_one_row(bb) ==
    /\ RowAt(bb, 1).len = 21
    /\ crc8(RowBytes(RowAt(bb, 1), 3), 3, 128, 0) # 0

\* "Validate package": row 1 has 21 bits and odd parity and is sent twice
calibeur_validate(bb) ==
    /\ RowAt(bb, 1).len = 21
    /\ crc8(RowBytes(RowAt(bb, 1), 3), 3, 128, 0) # 0
    /\ RowBytes(RowAt(bb, 1), 3) = RowBytes(RowAt(bb, 2), 3)

calibeur_rf104_callback(bb) ==
    LET row1 == RowAt(bb, 1)
        b(i) == RowByte(row1.bytes, i)
        bit(i, m) == IF BitAnd(b(i), m) # 0 THEN 1 ELSE 0
    IN  IF calibeur_validate(bb)
        THEN
        LET bits1 == bit(0, 128) + 2 * bit(0, 64) + 4 * bit(0, 32) + 8 * bit(0, 16)
                     + 16 * bit(0, 8) + 32 * bit(0, 4)
            ID    == bits1 \div 10
            bits2 == 16 * bit(0, 2) + 32 * bit(0, 1) + bit(1, 128) + 2 * bit(1, 64)
                     + 4 * bit(1, 32) + 8 * bit(1, 16) + 64 * bit(1, 8)
            bits3 == 32 * bit(1, 2) + 64 * bit(1, 1) + bit(2, 128) + 2 * bit(2, 64)
                     + 4 * bit(2, 32) + 8 * bit(2, 16) + 16 * bit(2, 8)
        IN  Emitted(<<KV("time", DStr("local_time_str")),
                      KV("model", DStr("Calibeur RF-104")),
                      KV("id", DInt(ID)),
                      KV("temperature_C", DDouble((bits1 % 10) + (10 * bits2) - 410, 10)),
                      KV("humidity", DDouble(bits3, 1))>>)
        ELSE Returned(0)

\* preamble_pattern of tpms_abarth.c has two bytes
tpms_preamble_pattern == <<170, 169>>

\* tpms_abarth_decode.  build.shift_wraps: (unsigned)b[0] << 32 gives b[0]
\* (the count taken modulo 32) or 0.  flags and check are chars passed where
\* data_make takes a string: the process is ended by a signal (build.wild <
\* 0) or the Reading holds whatever text is found there.  status is declared
\* nowhere: b[7] stands for it.
tpms_abarth_decode(row, bitpos, build) ==
    Only({
    LET b(i) == RowByte(md.out.bytes, i)
        low  == IF build.shift_wraps THEN BitOr(b(0), b(4)) ELSE b(4)
        id8  == HexOf(<<b(1), b(2), b(3), low>>)
        id_str == IF b(1) < 16 THEN Tail(id8) ELSE id8
        pressure    == b(5)
        temperature == b(6)
        status      == b(7)
    IN  IF build.wild < 0
        THEN [ret |-> 0, fault |-> "SIGSEGV", output |-> <<>>]
        ELSE Emitted(<<KV("model", DStr("Abarth 124 Spider")),
                       KV("type", DStr("TPMS")),
                       KV("id", DChars(id_str)),
                       KV("flags", DStr("(wild)")),
                       KV("pressure_kPa", DDouble(pressure * 14, 10)),
                       KV("temperature_C", DDouble(temperature - 50, 1)),
                       KV("status", DInt(status)),
                       KV("code", DChars(HexOf([i \in 1..9 |-> b(i - 1)]))),
                       KV("check", DStr("(wild)"))>>) :
    md \in {bitbuffer_manchester_decode(row, bitpos, 72)} })

\* the loop goes on at the match it has just handled
tpms_same_bitpos(found) == found

\* "bitpos += 2": where the search goes on behind a match
tpms_next_bitpos(found) == found + 2

\* the while loop of tpms_abarth_callback.  The search compares 24 bits: the
\* third byte is the byte behind preamble_pattern, build.pad
RECURSIVE tpms_abarth_loop(_, _, _, _)
tpms_abarth_loop(row, bitpos, build, acc) ==
    Only({
        IF found + 80 > row.len THEN acc
        ELSE Only({ IF d.fault # "none"
                    THEN [ret |-> acc.ret, fault |-> d.fault, output |-> acc.output]
                    ELSE Only({ tpms_abarth_loop(row, tpms_next_bitpos(found), build, acc2) :
                                acc2 \in {[ret |-> acc.ret + d.ret, fault |-> "none",
                                           output |-> acc.output \o d.output]} }) :
                    d \in {tpms_abarth_decode(row, found + 24, build)} }) :
    found \in {bitbuffer_search(row, bitpos, Append(tpms_preamble_pattern, build.pad), 24)} })

\* tpms_abarth_callback: [ret, fault, output, bitbuffer]
tpms_abarth_callback(bb, build) ==
    Only({ Only({ [ret |-> res.ret, fault |-> res.fault, output |-> res.output,
                   bitbuffer |-> inv] :
                  res \in {tpms_abarth_loop(RowAt(inv, 0), 0, build, Returned(0))} }) :
           inv \in {bitbuffer_invert(bb)} })

(***************************************************************************)
(* The builds and the inputs the checks range over.                        *)
(***************************************************************************)
ABIs == [lhs_first : BOOLEAN, bitfield_lsb : BOOLEAN, wild : {-1, 0, 165}]

NoDecoder == [name |-> "none", verbose |-> FALSE]

DidNone == [id |-> <<0, 0, 0>>, res |-> <<>>]

LoopNone ==
    [name |-> "none", pos |-> 0, iter |-> 0,
     build |-> [shift_wraps |-> FALSE, wild |-> 0, pad |-> 0]]

\* no mqtt_client_t allocated, no connection
\* the last event handled: the connection, whether its user_data was set,
\* the status of an MG_EV_CONNECT and the status of the connect event before
\* it, what was printed, the mg_connect_opt calls made and the connection
\* got, whether a freed mqtt_client_t was read
LastNone ==
    [ev |-> "none", nc |-> 0, ctx |-> FALSE, status |-> 0, prev |-> 0,
     error_printed |-> FALSE, failed_printed |-> FALSE, attempts |-> 0, made |-> 0,
     use_after_free |-> FALSE]

\* no mqtt_client_t allocated, no connection.  ctx: "none", "live", "freed";
\* conn: the index of ctx->conn in conns, 0 for NULL; history: the status of
\* the last MG_EV_CONNECT handled with a context
MqttNone ==
    [ctx |-> "none", address |-> <<>>, prev_status |-> 0, conn |-> 0, conns |-> <<>>,
     history |-> 0, last |-> LastNone]

PrimNone ==
    [fn |-> "none", min_repeats |-> 0, min_bits |-> 0, start |-> 0, max |-> 0,
     sent |-> <<>>, pos |-> 0, out |-> EmptyRow]

RECURSIVE SumSeq(_)
SumSeq(q) == IF q = <<>> THEN 0 ELSE Head(q) + SumSeq(Tail(q))

\* three device identifiers; a message with n identifiers carries the first n
GenIds == << <<4, 0, 42>>, <<16, 1, 7>>, <<73, 2, 1>> >>

RECURSIVE Flatten(_)
Flatten(qq) == IF qq = <<>> THEN <<>> ELSE Head(qq) \o Flatten(Tail(qq))

\* payload bytes of generated messages
GenPayloads ==
    << <<1, 9, 196, 30, 76, 5, 11, 7, 228, 200, 1, 60, 203, 1, 10, 0>>,
       <<0, 200, 1, 30, 201, 1, 15, 202, 1, 150, 203, 1, 20, 204, 1, 1>> >>

\* the command codes of the dispatch table, a code outside it, 0x2309 byte-swapped
GenCommands == {4144, 12607, 8, 16112, 8969, 4352, 9, 15104, 4660, 2339}

GenLenBytes == {0, 1, 2, 3, 5, 6, 8, 9, 16, 40}

\* a decoded region: header, n identifiers, command, length byte, `have`
\* payload bytes, `residue` further bytes, a byte that completes the sum to
\* ckdelta modulo 256, and half a byte more when nibble
GenRegion(n, cmd, lenbyte, have, pat, residue, ckdelta, nibble) ==
    LET body == <<16 + 4 * n>> \o Flatten(SubSeq(GenIds, 1, n))
                \o <<cmd \div 256, cmd % 256, lenbyte>>
                \o SubSeq(GenPayloads[pat], 1, have)
                \o [i \in 1..residue |-> 160 + i]
        ck   == (256 + ckdelta - (SumSeq(body) % 256)) % 256
    IN  IF nibble THEN [len |-> 8 * (Len(body) + 1) + 4, bytes |-> body \o <<ck, 80>>]
        ELSE [len |-> 8 * (Len(body) + 1), bytes |-> body \o <<ck>>]

Min(a, b) == IF a < b THEN a ELSE b

\* short = 1: the last payload byte the length byte announces is missing
GenParams ==
    { p \in [n : 0..3, cmd : GenCommands, lb : GenLenBytes, short : {0, 1},
             residue : 0..MaxResidue, ckdelta : {0, 1}, nibble : BOOLEAN] :
        /\ p.short = 0 \/ p.lb > 0
        /\ p.nibble => p.residue = 0 }

GenRegions ==
    { GenRegion(p.n, p.cmd, p.lb, Min(p.lb, 16) - p.short, IF p.cmd = 4144 THEN 2 ELSE 1,
                p.residue, p.ckdelta, p.nibble) : p \in GenParams }

GenDeviceIds ==
    { <<4 * t + s, b1, b2>> : t \in 0..63, s \in {0, 3}, b1 \in {0, 255}, b2 \in {0, 42, 255} }

(***************************************************************************)
(* SpecMsg: the message layer of the CM921 decoder on decoded regions, and *)
(* decode_device_id on identifiers.                                        *)
(***************************************************************************)
Idle ==
    /\ pc = "idle"
    /\ decoder = NoDecoder
    /\ input = <<>>
    /\ bitbuffer = <<>>
    /\ ret = 0
    /\ fault = "none"
    /\ output = <<>>
    /\ cm = CmNone
    /\ did = DidNone
    /\ tamper = FALSE
    /\ prim = PrimNone
    /\ log = FALSE
    /\ loop = LoopNone
    /\ mqtt = MqttNone

\* honeywell_cm921_decode has Manchester-decoded a region into `packet`
ManchesterDone ==
    /\ pc = "idle"
    /\ \E packet \in GenRegions : cm' = [CmNone EXCEPT !.packet = packet]
    /\ decoder' = [name |-> "honeywell_cm921", verbose |-> FALSE]
    /\ pc' = "emit"
    /\ UNCHANGED <<input, bitbuffer, ret, fault, output, did, tamper, prim, log, loop, mqtt>>

\* lines 384-410
EmitStage ==
    /\ pc = "emit"
    /\ \E abi \in ABIs : \E e \in {cm921_emit(cm.packet, cm.man_errors, abi)} :
              /\ cm' = [cm EXCEPT !.parse = e.parse]
              /\ ret' = e.ret
              /\ fault' = e.fault
              /\ output' = e.output
    /\ pc' = "done"
    /\ UNCHANGED <<decoder, input, bitbuffer, did, tamper, prim, log, loop, mqtt>>

CallDeviceId ==
    /\ pc = "idle"
    /\ \E id \in GenDeviceIds : did' = [id |-> id, res |-> <<>>]
    /\ decoder' = [name |-> "decode_device_id", verbose |-> FALSE]
    /\ pc' = "devid"
    /\ UNCHANGED <<input, bitbuffer, ret, fault, output, cm, tamper, prim, log, loop, mqtt>>

\* sprintf writes strlen(dev_name) + 8 bytes into the strlen(dev_name) + 7
\* bytes of res: a build that checks the write ends the process, any other
\* returns the string
DecodeDeviceId ==
    /\ pc = "devid"
    /\ \E checked \in BOOLEAN :
          IF checked
          THEN fault' = "SIGABRT" /\ did' = did
          ELSE fault' = "none" /\ did' = [did EXCEPT !.res = decode_device_id(did.id)]
    /\ pc' = "done"
    /\ UNCHANGED <<decoder, input, bitbuffer, ret, output, cm, tamper, prim, log, loop, mqtt>>

\* the call is over; nothing of it is kept
Return ==
    /\ pc = "done"
    /\ pc' = "idle"
    /\ decoder' = NoDecoder
    /\ input' = <<>>
    /\ bitbuffer' = <<>>
    /\ ret' = 0
    /\ fault' = "none"
    /\ output' = <<>>
    /\ cm' = CmNone
    /\ did' = DidNone
    /\ tamper' = FALSE
    /\ prim' = PrimNone
    /\ log' = FALSE
    /\ loop' = LoopNone
    /\ mqtt' = MqttNone

NextMsg == ManchesterDone \/ EmitStage \/ CallDeviceId \/ DecodeDeviceId \/ Return

SpecMsg == Idle /\ [][NextMsg]_vars

(***************************************************************************)
(* SpecSum: the byte-sum check of parse_msg on short regions, and on       *)
(* accepted regions with one byte replaced.                                *)
(***************************************************************************)
GenSumBytes == {0, 1, 128, 255}

RECURSIVE SeqsUpTo(_, _)
SeqsUpTo(S, n) ==
    IF n = 0 THEN {<<>>}
    ELSE LET shorter == SeqsUpTo(S, n - 1)
         IN  shorter \cup {Append(q, x) : q \in shorter, x \in S}

GenSumRegions ==
    {[len |-> 0, bytes |-> <<>>]}
    \cup { [len |-> 8 * (Len(body) + 1),
            bytes |-> Append(body, (256 + ckdelta - (SumSeq(body) % 256)) % 256)] :
             body \in SeqsUpTo(GenSumBytes, MaxSumBody), ckdelta \in {0, 1} }

\* parse_msg is called on a region
CallParseMsg ==
    /\ pc = "idle"
    /\ \E packet \in GenSumRegions : cm' = [CmNone EXCEPT !.packet = packet]
    /\ pc' = "parse"
    /\ UNCHANGED <<decoder, input, bitbuffer, ret, fault, output, did, tamper, prim, log,
                   loop, mqtt>>

ParseMsg ==
    /\ pc = "parse"
    /\ \E abi \in ABIs : \E p \in {parse_msg(cm.packet, abi)} :
          /\ cm' = [cm EXCEPT !.parse = p]
          /\ fault' = p.fault
    /\ pc' = "parsed"
    /\ UNCHANGED <<decoder, input, bitbuffer, ret, output, did, tamper, prim, log, loop, mqtt>>

\* an accepted region comes again with one byte replaced
ReplaceByte ==
    /\ pc = "parsed"
    /\ cm.parse.checksum_ok
    /\ ~tamper
    /\ \E i \in 1..(cm.packet.len \div 8) : \E v \in 0..255 :
          /\ v # cm.packet.bytes[i]
          /\ cm' = [CmNone EXCEPT !.packet = [cm.packet EXCEPT !.bytes[i] = v]]
    /\ tamper' = TRUE
    /\ UNCHANGED <<prim, log, loop, mqtt>>
    /\ fault' = "none"
    /\ pc' = "parse"
    /\ UNCHANGED <<decoder, input, bitbuffer, ret, output, did>>

ParseReturn ==
    /\ pc = "parsed"
    /\ pc' = "idle"
    /\ cm' = CmNone
    /\ fault' = "none"
    /\ tamper' = FALSE
    /\ prim' = PrimNone
    /\ log' = FALSE
    /\ loop' = LoopNone
    /\ mqtt' = MqttNone
    /\ UNCHANGED <<decoder, input, bitbuffer, ret, output, did>>

NextSum == CallParseMsg \/ ParseMsg \/ ReplaceByte \/ ParseReturn

SpecSum == Idle /\ [][NextSum]_vars

(***************************************************************************)
(* SpecPrim: bitbuffer_find_repeated_row and bitbuffer_manchester_decode   *)
(* called on their own.                                                    *)
(***************************************************************************)
\* 12 rows: row `base` everywhere but at the places in `odd`, where `other` is
RepeatPacket(base, other, odd) == [i \in 1..12 |-> IF i \in odd THEN other ELSE base]

GenRepeatRows ==
    { Row(<<149, 0, 233, 163, 160>>, 36), Row(<<149, 0, 233, 163, 176>>, 36),
      Row(<<21, 0, 233, 163, 160>>, 36), Row(<<149, 0, 233, 163, 160>>, 35) }

GenRepeatPackets ==
    { RepeatPacket(base, other, odd) :
        base \in {Row(<<149, 0, 233, 163, 160>>, 36)}, other \in GenRepeatRows,
        odd \in { {d} : d \in 1..12 } \cup { {1, 2}, {5, 12} } }

\* a decoder calls bitbuffer_find_repeated_row(bitbuffer, min_repeats, min_bits)
CallFindRepeatedRow ==
    /\ pc = "idle"
    /\ \E packet \in GenRepeatPackets : \E min_repeats \in {3, 11, 12} :
          /\ input' = packet
          /\ bitbuffer' = packet
          /\ prim' = [PrimNone EXCEPT !.fn = "bitbuffer_find_repeated_row",
                                      !.min_repeats = min_repeats, !.min_bits = 36]
    /\ pc' = "called"
    /\ UNCHANGED <<decoder, ret, fault, output, cm, did, tamper, log, loop, mqtt>>

FindRepeatedRow ==
    /\ pc = "called"
    /\ prim.fn = "bitbuffer_find_repeated_row"
    /\ ret' = bitbuffer_find_repeated_row(bitbuffer, prim.min_repeats, prim.min_bits)
    /\ pc' = "done"
    /\ UNCHANGED <<decoder, input, bitbuffer, fault, output, cm, did, tamper, prim, log, loop,
                   mqtt>>

\* every sequence of at most n bits
BitSeqs(n) == UNION { [1..k -> {0, 1}] : k \in 0..n }

\* the Manchester code of a bit sequence: 1 as the pair 10, 0 as the pair 01
ManchesterEncode(bits) ==
    [j \in 1..(2 * Len(bits)) |->
        IF j % 2 = 1 THEN bits[(j + 1) \div 2] ELSE 1 - bits[j \div 2]]

\* what follows the code in the row, and the `max` the decoder is given: a
\* row that ends, or goes on with a pair that is no code, read without limit
\* or with the limit the code has; a row that goes on with code, read with
\* that limit
GenManchesterRest(n) ==
    { [tail |-> t, max |-> m] : t \in {<<>>, <<0, 0>>, <<1, 1>>}, m \in {0, n} }
    \cup { [tail |-> <<1, 0, 0, 1>>, max |-> m] : m \in {n} \ {0} }

\* a decoder calls bitbuffer_manchester_decode on the code of `sent`, which
\* begins at bit `start` of the row
CallManchesterDecode ==
    /\ pc = "idle"
    /\ \E sent \in BitSeqs(MaxManchesterBits) : \E lead \in {<<>>, <<1>>, <<0, 0, 1>>} :
       \E rest \in GenManchesterRest(Len(sent)) :
          /\ input' = <<BitsToRow(lead \o ManchesterEncode(sent) \o rest.tail)>>
          /\ prim' = [PrimNone EXCEPT !.fn = "bitbuffer_manchester_decode",
                                      !.start = Len(lead), !.max = rest.max,
                                      !.sent = sent]
    /\ bitbuffer' = input'
    /\ pc' = "called"
    /\ UNCHANGED <<decoder, ret, fault, output, cm, did, tamper, log, loop, mqtt>>

ManchesterDecode ==
    /\ pc = "called"
    /\ prim.fn = "bitbuffer_manchester_decode"
    /\ \E md \in {bitbuffer_manchester_decode(RowAt(bitbuffer, 0), prim.start, prim.max)} :
          /\ prim' = [prim EXCEPT !.pos = md.pos, !.out = md.out]
          /\ ret' = md.pos
    /\ pc' = "done"
    /\ UNCHANGED <<decoder, input, bitbuffer, fault, output, cm, did, tamper, log, loop, mqtt>>

NextPrim ==
    \/ CallFindRepeatedRow
    \/ FindRepeatedRow
    \/ CallManchesterDecode
    \/ ManchesterDecode
    \/ Return

SpecPrim == Idle /\ [][NextPrim]_vars

(***************************************************************************)
(* Spec: the demodulator hands a packet to a decoder, the decoder runs.    *)
(***************************************************************************)
\* Manchester code of a byte sequence: 1 as 10, 0 as 01
ManchesterBits(bytes) ==
    Only({ [j \in 1..(16 * Len(v)) |->
              LET bit == Shr(v[((j - 1) \div 16) + 1], 7 - (((j - 1) % 16) \div 2)) % 2
              IN  IF j % 2 = 1 THEN bit ELSE 1 - bit] : v \in {bytes} })

\* each byte between a start bit 0 and a stop bit 1, least significant bit first
FrameBits(bytes) ==
    Only({ [j \in 1..(10 * Len(v)) |->
              LET k == (j - 1) % 10
              IN  IF k = 0 THEN 0
                  ELSE IF k = 9 THEN 1
                  ELSE Shr(v[((j - 1) \div 10) + 1], k - 1) % 2] : v \in {bytes} })

\* what a CM921 sends for a region: preamble, header 33 55 53, the Manchester
\* code of the region, footer 35, filler bytes 55
Cm921Bits(region, fillers) ==
    [j \in 1..30 |-> bitrow_get_bit(preamble_pattern, j - 1)]
    \o FrameBits(<<51, 85, 83>> \o BitsToRow(ManchesterBits(region)).bytes
                 \o <<53>> \o [i \in 1..fillers |-> 85])

FlipBit(bits, i) == Only({ [v EXCEPT ![i] = 1 - @] : v \in {bits} })

\* what follows the last filler group: one bit; nothing; a group with stop
\* bit 0; a group with start bit 1
GenTails ==
    { <<0>>, <<>>, <<0, 1, 0, 1, 0, 1, 0, 1, 0, 0, 0>>, <<1, 1, 0, 1, 0, 1, 0, 1, 0, 1, 0>> }

\* regions sent: command 0x2309 with a good and a bad checksum, an unknown
\* command with one identifier, a length byte without its payload, two
\* residue bytes
GenSent ==
    { GenRegion(0, 8969, 3, 3, 1, 0, 0, FALSE), GenRegion(0, 8969, 3, 3, 1, 0, 1, FALSE),
      GenRegion(1, 4660, 0, 0, 1, 0, 0, FALSE), GenRegion(0, 8, 1, 0, 1, 0, 0, FALSE),
      GenRegion(0, 8, 0, 0, 1, 2, 0, FALSE) }

GenCm921 ==
    { <<BitsToRow(Cm921Bits(r.bytes, f) \o t)>> : r \in GenSent, f \in {0, 2}, t \in GenTails }
    \cup { <<BitsToRow(FlipBit(Cm921Bits(r.bytes, 2) \o <<0>>, i))>> :
             r \in GenSent, i \in {31, 80, 101, 181} }
    \cup { <<>>, <<Row(<<85, 95, 240, 4, 0, 0, 0>>, 56)>>,
           <<Row(<<85, 95, 240, 4, 0, 0, 0, 0>>, 64), EmptyRow>>,
           <<Row(<<0, 0, 0, 0, 0, 0, 0, 0>>, 64)>>,
           <<Row(<<0, 0, 0, 0, 85, 95, 240, 4>>, 62)>> }

\* packets with one bit of the first or the fourth group of the region
\* flipped
GenCm921Broken ==
    { <<BitsToRow(FlipBit(Cm921Bits(r.bytes, 2) \o <<0>>, i))>> :
        r \in GenSent, i \in {63, 95} }

GenX10Rf ==
    { <<EmptyRow, Row(<<b0, BitXor(b0, c), b2, 255 - b2>>, len)>> :
        b0 \in {96, 100, 11}, c \in {255, 254}, b2 \in {0, 32, 144, 136, 1}, len \in {32, 31} }
    \cup { <<EmptyRow>> }

GenX10SecRows ==
    { Row(<<90, BitXor(90, c), b2, 255 - b2, 167, 128>>, len) :
        c \in {15, 255}, b2 \in {0, 4, 129, 12, 85}, len \in {41, 39} }

GenX10Sec ==
    { <<>> } \cup { <<r>> : r \in GenX10SecRows }
    \cup { <<Row(<<90, 85, 12, 243, 167, 128>>, 41), r>> : r \in GenX10SecRows }

\* 36-bit Auriol rows
GenAuriolRows ==
    { Row(<<149, b1, b2, b3, 160>>, 36) :
        b1 \in {0, 63, 143, 69, 8}, b2 \in {233, 255, 0}, b3 \in {163, 83, 166} }

GenAuriol ==
    { [i \in 1..12 |-> r] : r \in GenAuriolRows }
    \cup { [i \in 1..12 |-> IF i = 5 THEN Row(<<149, 0, 1, 163, 160>>, 36) ELSE r] :
             r \in GenAuriolRows }
    \cup { [i \in 1..11 |-> Row(<<149, 0, 233, 163, 160>>, 36)],
           [i \in 1..12 |-> Row(<<149, 0, 233, 163, 160>>, IF i = 12 THEN 35 ELSE 36)] }

\* what bb[-1] may hold
GenWildRows == { <<0, 0, 0, 0, 0>>, <<36, 0, 233, 163, 160>>, <<36, 0, 36, 0, 36>> }

GenHolmanPayloads ==
    { <<26, 43, hi, 243, 160, 69, 7, 147, 129, 34, 92, 13>> : hi \in {255, 1, 128} }

\* 18 payload bytes; byte 12 has the XOR's low nibble plus delta, and top as
\* its high nibble
HolmanPcmBytes(payload, top, delta) ==
    payload \o <<top * 16 + ((BitAnd(xor_bytes(payload, 12), 15) + delta) % 16)>>
    \o <<1, 2, 3, 4, 5>>

GenHolmanPcm ==
    { <<Row(lead \o pre \o HolmanPcmBytes(p, top, delta) \o trail,
            8 * (Len(lead) + 24 + Len(trail)) - cut)>> :
        p \in GenHolmanPayloads, top \in {0, 7}, delta \in {0, 1},
        lead \in {<<>>, <<0>>}, trail \in {<<>>, <<0, 0, 0>>}, cut \in {0, 1},
        pre \in {holman_pcm_preamble} }
    \cup { <<Row([i \in 1..24 |-> 170], 192)>>, <<>>,
           <<Row([i \in 1..24 |-> 170], 192), Row([i \in 1..24 |-> 170], 192)>> }

\* 96-bit rows as sent, every bit the complement of its meaning
HolmanPwmRow(pre, body, delta) ==
    LET first10 == pre \o body
        x       == xor_bytes(first10, 10)
    IN  Row(first10 \o <<BitXor(BitAnd(x, 15), (15 + delta) % 16) + 160, 0>>, 96)

GenHolmanPwmRows ==
    { HolmanPwmRow(pre, <<114, b4, b5, 200, 254, 207, 159>>, delta) :
        pre \in {holman_pwm_preamble, <<85, 90, 102>>}, b4 \in {240, 127, 112},
        b5 \in {0, 30}, delta \in {0, 1} }

GenHolmanPwm ==
    { <<r, r, r>> : r \in GenHolmanPwmRows }
    \cup { <<r, Row([i \in 1..12 |-> 0], 96), r>> : r \in GenHolmanPwmRows }
    \cup { <<r, r, EmptyRow, r>> : r \in GenHolmanPwmRows }
    \cup { <<>>, [i \in 1..3 |-> Row([k \in 1..13 |-> 85], 97)] }

\* Abarth rows as sent: the complement of preamble aa a9, a third byte and
\* the Manchester code of 9 bytes
TpmsBits(third, payload) ==
    [j \in 1..24 |-> bitrow_get_bit(<<170, 169, third>>, j - 1)] \o ManchesterBits(payload)

GenTpmsPayloads ==
    { <<b0, b1, 3, 4, 5, 180, 70, 1, 9>> : b0 \in {0, 129}, b1 \in {2, 32} }

GenTpms ==
    { bitbuffer_invert(<<BitsToRow(lead \o TpmsBits(third, p) \o trail)>>) :
        p \in GenTpmsPayloads, third \in {0, 85},
        lead \in {<<>>, <<0, 1>>}, trail \in {<<>>, TpmsBits(0, <<1, 2, 3, 4, 5, 6, 7, 8, 9>>)} }
    \cup { <<>>, <<Row(<<85, 86, 255>>, 24)>>, <<Row([i \in 1..12 |-> 255], 96)>> }

GenInfactory ==
    { <<Row(<<b0, 0, b2, b3, 80>>, len)>> :
        b0 \in {7, 200}, b2 \in {0, 62, 255}, b3 \in {132, 9}, len \in {40, 39, 41} }
    \cup { <<>> }

GenCalibeurRows == { Row(<<b0, b1, b2>>, 21) : b0 \in {72, 73}, b1 \in {147, 19}, b2 \in {168, 40} }

GenCalibeur ==
    { <<EmptyRow, r, r2>> : r \in GenCalibeurRows, r2 \in GenCalibeurRows }
    \cup { <<EmptyRow, Row(<<72, 147, 168>>, 20), Row(<<72, 147, 168>>, 20)>>, <<EmptyRow>> }

TpmsBuilds == [shift_wraps : BOOLEAN, wild : {-1, 0}, pad : {0, 85}]

\* the output_fields list each r_device registers.  Adjacent string literals
\* without a comma between them are one string
output_fields(name) ==
    IF name = "honeywell_cm921"
    THEN {"model", "Packet", "Device IDs", "Header", "Command", "Payload", "Unparsed", "CRC",
          "# man errors", "time", "domain_id", "state", "demand", "status", "zone_idx",
          "max_flow_temp", "pump_run_time", "actuator_run_time", "min_flow_temp"}
    ELSE IF name \in {"holman_ws5029pcm", "holman_ws5029pwm"}
    THEN {"model", "id", "temperature_C", "humidity", "battery_ok", "rain_mm", "wind_avg_km_h",
          "wind_dir_deg", "uv", "light_lux", "counter", "mic"}
    ELSE IF name = "auriol_afw2a1"
    THEN {"model", "id", "channel", "battery_ok", "button", "temperature_C", "humidity"}
    ELSE IF name = "x10_rf"
    THEN {"model", "channel", "id", "houseid", "deviceid", "state", "data"}
    ELSE IF name = "x10_sec"
    THEN {"model", "id", "code", "event", "delaybattery_ok"}
    ELSE IF name = "tpms_abarth"
    THEN {"model", "type", "id", "flags", "pressure_kPa", "temperature_C", "status", "code",
          "check"}
    ELSE IF name = "infactory"
    THEN {"modelid", "temperature_F", "humidity"}
    ELSE IF name = "calibeur_RF104"
    THEN {"time", "model", "id", "temperature_C", "humidity"}
    ELSE {}

Decoders ==
    { "honeywell_cm921", "holman_ws5029pcm", "holman_ws5029pwm", "auriol_afw2a1", "x10_rf",
      "x10_sec", "tpms_abarth", "infactory", "calibeur_RF104" }

GenPackets(name) ==
    IF name = "honeywell_cm921" THEN GenCm921
    ELSE IF name = "holman_ws5029pcm" THEN GenHolmanPcm
    ELSE IF name = "holman_ws5029pwm" THEN GenHolmanPwm
    ELSE IF name = "auriol_afw2a1" THEN GenAuriol
    ELSE IF name = "x10_rf" THEN GenX10Rf
    ELSE IF name = "x10_sec" THEN GenX10Sec
    ELSE IF name = "tpms_abarth" THEN GenTpms
    ELSE IF name = "infactory" THEN GenInfactory
    ELSE GenCalibeur

\* the demodulator calls a decoder's decode_fn on a packet
Demodulate ==
    /\ pc = "idle"
    /\ \E name \in Decoders : \E verbose \in BOOLEAN : \E packet \in GenPackets(name) :
          /\ decoder' = [name |-> name, verbose |-> verbose]
          /\ input' = packet
          /\ bitbuffer' = packet
    /\ pc' = "called"
    /\ UNCHANGED <<ret, fault, output, cm, did, tamper, prim, log, loop, mqtt>>

\* whether a call with decoder->verbose set gets to one of the decoder's
\* "if (decoder->verbose)" statements or decoder_log calls, all of which
\* print and do nothing else
verbose_prints(name, bb, r) ==
    IF name = "honeywell_cm921" THEN Len(bb) = 1 /\ bb[1].len >= 60
    ELSE IF name = "x10_rf" THEN TRUE
    ELSE IF name = "x10_sec" THEN r = 1
    ELSE IF name = "auriol_afw2a1" THEN r = DECODE_FAIL_SANITY
    ELSE IF name = "holman_ws5029pcm"
    THEN \/ Len(bb) # 1
         \/ /\ bb[1].len >= 192
            /\ bitbuffer_search(bb[1], 0, holman_pcm_preamble, 48) < bb[1].len
    ELSE FALSE

\* a decoder that returns DECODE_ABORT_EARLY behind its diagnostic text
Ran_verbose_aborts(res) ==
    /\ ret' = IF decoder.verbose /\ verbose_prints(decoder.name, bitbuffer, res.ret)
              THEN DECODE_ABORT_EARLY ELSE res.ret
    /\ fault' = res.fault
    /\ output' = res.output
    /\ log' = (decoder.verbose /\ verbose_prints(decoder.name, bitbuffer, res.ret))
    /\ pc' = "done"
    /\ UNCHANGED <<decoder, input, bitbuffer, did, tamper, prim, loop, mqtt>>

\* a decoder that leaves the packet alone has run
Ran(res) ==
    /\ ret' = res.ret
    /\ fault' = res.fault
    /\ output' = res.output
    /\ log' = (decoder.verbose /\ verbose_prints(decoder.name, bitbuffer, res.ret))
    /\ pc' = "done"
    /\ UNCHANGED <<decoder, input, bitbuffer, did, tamper, prim, loop, mqtt>>

\* a decoder that may invert the packet has run
RanInPlace(res) ==
    /\ ret' = res.ret
    /\ fault' = res.fault
    /\ output' = res.output
    /\ bitbuffer' = res.bitbuffer
    /\ log' = (decoder.verbose /\ verbose_prints(decoder.name, bitbuffer, res.ret))
    /\ pc' = "done"
    /\ UNCHANGED <<decoder, input, cm, did, tamper, prim, loop, mqtt>>

HoneywellCm921 ==
    /\ pc = "called"
    /\ decoder.name = "honeywell_cm921"
    /\ \E abi \in ABIs : \E res \in {honeywell_cm921_decode(bitbuffer, abi)} :
          /\ cm' = res.cm
          /\ Ran(res)

HolmanWs5029Pcm ==
    /\ pc = "called"
    /\ decoder.name = "holman_ws5029pcm"
    /\ \E res \in {holman_ws5029pcm_decode(bitbuffer)} : Ran(res) /\ cm' = cm

HolmanWs5029Pwm ==
    /\ pc = "called"
    /\ decoder.name = "holman_ws5029pwm"
    /\ \E res \in {holman_ws5029pwm_decode(bitbuffer)} : RanInPlace(res)

AuriolAfw2a1 ==
    /\ pc = "called"
    /\ decoder.name = "auriol_afw2a1"
    /\ \E b_wild \in GenWildRows : \E res \in {auriol_afw2a1_decode(bitbuffer, b_wild)} :
          Ran(res) /\ cm' = cm

X10Rf ==
    /\ pc = "called"
    /\ decoder.name = "x10_rf"
    /\ \E res \in {x10_rf_callback(bitbuffer)} : Ran(res) /\ cm' = cm

X10Sec ==
    /\ pc = "called"
    /\ decoder.name = "x10_sec"
    /\ \E res \in {x10_sec_callback(bitbuffer)} : Ran(res) /\ cm' = cm

TpmsAbarth ==
    /\ pc = "called"
    /\ decoder.name = "tpms_abarth"
    /\ \E build \in TpmsBuilds : \E res \in {tpms_abarth_callback(bitbuffer, build)} :
          RanInPlace(res)

Infactory ==
    /\ pc = "called"
    /\ decoder.name = "infactory"
    /\ \E res \in {infactory_callback(bitbuffer)} : Ran(res) /\ cm' = cm

CalibeurRf104 ==
    /\ pc = "called"
    /\ decoder.name = "calibeur_RF104"
    /\ \E res \in {calibeur_rf104_callback(bitbuffer)} : Ran(res) /\ cm' = cm

Next ==
    \/ Demodulate
    \/ HoneywellCm921
    \/ HolmanWs5029Pcm
    \/ HolmanWs5029Pwm
    \/ AuriolAfw2a1
    \/ X10Rf
    \/ X10Sec
    \/ TpmsAbarth
    \/ Infactory
    \/ CalibeurRf104
    \/ Return

Spec == Idle /\ [][Next]_vars

(***************************************************************************)
(* SpecLoop: the while loops of honeywell_cm921_decode and                 *)
(* tpms_abarth_callback, one iteration at a time.                          *)
(***************************************************************************)
\* honeywell_cm921_decode gets to its frame loop: one row of 60 bits or
\* more, 8 bits or more behind the preamble
EnterStripLoop ==
    /\ pc = "idle"
    /\ \E packet \in GenCm921 \cup GenCm921Broken :
          /\ Len(packet) = 1
          /\ packet[1].len >= 60
          /\ \E start \in {bitbuffer_search(packet[1], 0, preamble_pattern, 30) + 30} :
                /\ packet[1].len - start >= 8
                /\ loop' = [LoopNone EXCEPT !.name = "strip", !.pos = start]
          /\ input' = packet
          /\ bitbuffer' = packet
    /\ decoder' = [name |-> "honeywell_cm921", verbose |-> FALSE]
    /\ pc' = "loop"
    /\ UNCHANGED <<ret, fault, output, cm, did, tamper, prim, log, mqtt>>

\* get_byte returns 10: the byte is added and pos += 10
StripStep ==
    /\ pc = "loop"
    /\ loop.name = "strip"
    /\ loop.pos < bitbuffer[1].len
    /\ \E gb \in {get_byte(bitbuffer[1], loop.pos, bitbuffer[1].len)} :
          /\ gb.rc = 10
          /\ cm' = [cm EXCEPT !.bytes = add_byte_lsb_first(cm.bytes, gb.out, 0)]
    /\ loop' = [loop EXCEPT !.pos = @ + 10, !.iter = @ + 1]
    /\ UNCHANGED <<pc, decoder, input, bitbuffer, ret, fault, output, did, tamper, prim, log,
                   mqtt>>

\* the frame loop ends, the header is compared and the footer scan begins
StripExit ==
    /\ pc = "loop"
    /\ loop.name = "strip"
    /\ \E gb \in {get_byte(bitbuffer[1], loop.pos, bitbuffer[1].len)} :
          /\ loop.pos >= bitbuffer[1].len \/ gb.rc # 10
          /\ cm' = [cm EXCEPT !.strip_rc = IF loop.pos >= bitbuffer[1].len THEN 10 ELSE gb.rc]
    /\ IF RowBytes(cm.bytes, 3) = <<51, 85, 83>>
       THEN /\ loop' = [loop EXCEPT !.name = "footer", !.pos = cm.bytes.len - 8, !.iter = 0]
            /\ UNCHANGED <<pc, ret>>
       ELSE /\ pc' = "done"
            /\ ret' = DECODE_FAIL_SANITY
            /\ loop' = loop
    /\ UNCHANGED <<decoder, input, bitbuffer, fault, output, did, tamper, prim, log, mqtt>>

\* the byte at fi is 0x55: seen_aa = 1, fi -= 8
FooterStep ==
    /\ pc = "loop"
    /\ loop.name = "footer"
    /\ bitrow_get_byte(cm.bytes.bytes, loop.pos) = 85
    /\ loop' = [loop EXCEPT !.pos = @ - 8, !.iter = @ + 1]
    /\ UNCHANGED <<pc, decoder, input, bitbuffer, ret, fault, output, cm, did, tamper, prim,
                   log, mqtt>>

\* the footer scan ends at fi
FooterExit ==
    /\ pc = "loop"
    /\ loop.name = "footer"
    /\ bitrow_get_byte(cm.bytes.bytes, loop.pos) # 85
    /\ cm' = [cm EXCEPT !.fi = loop.pos]
    /\ pc' = "tail"
    /\ UNCHANGED <<decoder, input, bitbuffer, ret, fault, output, did, tamper, prim, log, loop,
                   mqtt>>

\* behind the loops the call runs to its return: the footer test, the
\* Manchester stage, parse_msg and the Reading
Cm921Tail ==
    /\ pc = "tail"
    /\ \E abi \in ABIs : \E res \in {honeywell_cm921_decode(bitbuffer, abi)} :
          /\ cm' = res.cm
          /\ ret' = res.ret
          /\ fault' = res.fault
          /\ output' = res.output
    /\ pc' = "done"
    /\ UNCHANGED <<decoder, input, bitbuffer, did, tamper, prim, log, loop, mqtt>>

\* tpms_abarth_callback has inverted the packet and gets to its loop
EnterTpmsLoop ==
    /\ pc = "idle"
    /\ \E packet \in GenTpms : \E build \in TpmsBuilds :
          /\ input' = packet
          /\ bitbuffer' = bitbuffer_invert(packet)
          /\ loop' = [LoopNone EXCEPT !.name = "tpms", !.build = build]
    /\ decoder' = [name |-> "tpms_abarth", verbose |-> FALSE]
    /\ pc' = "loop"
    /\ UNCHANGED <<ret, fault, output, cm, did, tamper, prim, log, mqtt>>

\* the search from bitpos, with the byte behind preamble_pattern as the
\* third byte of the pattern
TpmsFound ==
    bitbuffer_search(RowAt(bitbuffer, 0), loop.pos,
                     Append(tpms_preamble_pattern, loop.build.pad), 24)

\* a match with 80 bits behind it: tpms_abarth_decode, bitpos += 2
TpmsStep ==
    /\ pc = "loop"
    /\ loop.name = "tpms"
    /\ \E found \in {TpmsFound} :
          /\ found + 80 <= RowAt(bitbuffer, 0).len
          /\ \E d \in {tpms_abarth_decode(RowAt(bitbuffer, 0), found + 24, loop.build)} :
                IF d.fault # "none"
                THEN /\ fault' = d.fault
                     /\ pc' = "done"
                     /\ UNCHANGED <<ret, output, loop>>
                ELSE /\ ret' = ret + d.ret
                     /\ output' = output \o d.output
                     /\ loop' = [loop EXCEPT !.pos = tpms_next_bitpos(found), !.iter = @ + 1]
                     /\ UNCHANGED <<pc, fault>>
    /\ UNCHANGED <<decoder, input, bitbuffer, cm, did, tamper, prim, log, mqtt>>

\* no further match with 80 bits behind it: return events
TpmsExit ==
    /\ pc = "loop"
    /\ loop.name = "tpms"
    /\ TpmsFound + 80 > RowAt(bitbuffer, 0).len
    /\ pc' = "done"
    /\ UNCHANGED <<decoder, input, bitbuffer, ret, fault, output, cm, did, tamper, prim, log,
                   loop, mqtt>>

\* an iteration or the exit of a loop
LoopStep ==
    \/ StripStep
    \/ StripExit
    \/ FooterStep
    \/ FooterExit
    \/ TpmsStep
    \/ TpmsExit

NextLoop ==
    \/ EnterStripLoop
    \/ EnterTpmsLoop
    \/ StripStep
    \/ StripExit
    \/ FooterStep
    \/ FooterExit
    \/ Cm921Tail
    \/ TpmsStep
    \/ TpmsExit
    \/ Return

SpecLoop == Idle /\ [][NextLoop]_vars

\* a call that is in a loop goes on running
SpecLoopFair == SpecLoop /\ WF_vars(LoopStep)

(***************************************************************************)
(* Properties of the CM921 message layer.                                  *)
(***************************************************************************)
\* lines 384-410 have run on cm.packet
MsgDone == pc = "done" /\ decoder.name = "honeywell_cm921"

\* parse_msg returned 1 and interpret_message has run
Interpreted == MsgDone /\ cm.parse.rc = 1 /\ fault = "none"

\* byte k of the decoded region, counted from 0
RegionByte(k) == RowByte(cm.packet.bytes, k)

RegionBytes == cm.packet.len \div 8

\* C1: when the bytes of the Manchester-decoded region, the trailing checksum
\* byte included, do not sum to 0 modulo 256, honeywell_cm921_decode emits no
\* Reading for the packet.
C1_BadSumDropped ==
    (MsgDone /\ SumSeq(SubSeq(cm.packet.bytes, 1, RegionBytes)) % 256 # 0) =>
        output = <<>>

\* C2: a decode call that returns DECODE_ABORT_EARLY, DECODE_ABORT_LENGTH,
\* DECODE_FAIL_SANITY or DECODE_FAIL_MIC has emitted no Reading, whichever
\* decoder ran on whichever packet.
C2_RejectedNoReading == (pc = "done" /\ ret \in RejectCodes) => output = <<>>

\* the CM921 decoder has stripped the frames of a packet and rejected it
C2_Witness == MsgDone /\ ret = DECODE_FAIL_SANITY /\ cm.bytes.len >= 24 /\ output = <<>>

\* C3: when a 10-bit group behind the preamble has a start bit other than 0
\* or a stop bit other than 1, the call returns DECODE_FAIL_SANITY, emits no
\* Reading and hands no stripped byte to the header validation.
C3_FramingViolationAborts ==
    (MsgDone /\ cm.strip_rc = DECODE_FAIL_SANITY) =>
        /\ ret = DECODE_FAIL_SANITY
        /\ output = <<>>
        /\ cm.bytes = EmptyRow

(***************************************************************************)
(* Properties of the CM921 framing layer.                                  *)
(***************************************************************************)
\* the bit behind the preamble match, and the number of bits from there to the
\* end of the row
FrameStart == bitbuffer_search(RowAt(input, 0), 0, preamble_pattern, 30) + 30

FrameLen == RowAt(input, 0).len - FrameStart

\* the row is long enough and holds no preamble
NoPreamble ==
    /\ Len(input) = 1
    /\ input[1].len >= 60
    /\ bitbuffer_search(input[1], 0, preamble_pattern, 30) = input[1].len

\* C11: a packet without exactly one row, a row shorter than 60 bits and a
\* row of 60 bits or more without the preamble are reported with return codes
\* that differ pairwise.
C11_CausesDistinct ==
    (MsgDone /\ NoPreamble) =>
        \A abi \in ABIs :
            LET rows  == honeywell_cm921_decode(<<>>, abi).ret
                short == honeywell_cm921_decode(<<Row(<<85, 95, 240, 4, 0, 0, 0>>, 56)>>, abi).ret
            IN  /\ rows # short
                /\ ret # rows
                /\ ret # short

\* the frame loop has run: its last get_byte has returned
Stripped == MsgDone /\ cm.strip_rc # 0

\* every whole 10-bit group behind the preamble has start bit 0 and stop bit 1
AllGroupsFramed ==
    \A g \in 0..((FrameLen \div 10) - 1) :
        /\ bitrow_get_bit(input[1].bytes, FrameStart + 10 * g) = 0
        /\ bitrow_get_bit(input[1].bytes, FrameStart + 10 * g + 9) = 1

\* C12: when every 10-bit group behind the preamble has start bit 0 and stop
\* bit 1, frame stripping re-assembles floor(len / 10) bytes, a group that
\* ends at the row end included.
C12_StripsEveryGroup ==
    (Stripped /\ AllGroupsFramed) => cm.bytes.len = 8 * (FrameLen \div 10)

\* the re-assembled bytes begin with the header 33 55 53
HeaderMatched ==
    /\ Stripped
    /\ RowBytes(cm.bytes, 3) = <<51, 85, 83>>

\* the re-assembled bytes end with a run of 0x55 that follows a 0x35
EndsWithFooter ==
    LET n == cm.bytes.len \div 8
    IN  \E j \in 0..(n - 2) :
            /\ RowByte(cm.bytes.bytes, j) = 53
            /\ \A i \in (j + 1)..(n - 1) : RowByte(cm.bytes.bytes, i) = 85

\* C13: once the header has matched, the footer stage accepts exactly when
\* the re-assembled bytes end with one or more 0x55 that follow a 0x35;
\* otherwise the call returns DECODE_FAIL_SANITY.
C13_FooterStage ==
    HeaderMatched =>
        /\ EndsWithFooter => (ret # DECODE_FAIL_SANITY /\ cm.fi >= 24)
        /\ ~EndsWithFooter => (ret = DECODE_FAIL_SANITY /\ output = <<>>)

\* both outcomes: a packet whose footer was found, and one that ends with the
\* footer byte and no filler
C13_Witness ==
    /\ HeaderMatched
    /\ \/ EndsWithFooter /\ ret = 1 /\ cm.fi > 24
       \/ /\ ret = DECODE_FAIL_SANITY
          /\ RowByte(cm.bytes.bytes, (cm.bytes.len \div 8) - 1) = 53

(***************************************************************************)
(* Properties of the weather-sensor decoders.                              *)
(***************************************************************************)
\* a decoder has returned with a Reading
Emits(name) == pc = "done" /\ decoder.name = name /\ fault = "none" /\ output # <<>>

\* the 12-bit field t read as a two's complement number of tenths
Tenths12(t) == DDouble(IF t >= 2048 THEN t - 4096 ELSE t, 10)

\* the 12-bit temperature field of the packet each decoder was called on
AuriolTemp12 ==
    LET b == RowAt(input, bitbuffer_find_repeated_row(input, 12, 36)).bytes
    IN  BitAnd(RowByte(b, 1), 15) * 256 + RowByte(b, 2)

HolmanPcmTemp12 ==
    LET pos == bitbuffer_search(RowAt(input, 0), 0, holman_pcm_preamble, 48)
        b   == bitbuffer_extract_bytes(RowAt(input, 0), pos + 48, 144)
    IN  b[3] * 16 + Shr(b[4], 4)

HolmanPwmTemp12 ==
    LET b == RowAt(input, bitbuffer_find_repeated_row(input, 3, 96)).bytes
    IN  BitAnd(255 - RowByte(b, 4), 15) * 256 + (255 - RowByte(b, 5))

\* C14: the Auriol, Holman PCM and Holman PWM decoders report the 12-bit
\* temperature field as a two's complement number of tenths of a degree:
\* 0xFFF is reported as -0.1, not as 409.5.
C14_SignedTemperature ==
    /\ (Emits("auriol_afw2a1") /\ bitbuffer_find_repeated_row(input, 12, 36) >= 0) =>
           Field(output[1], "temperature_C") = Tenths12(AuriolTemp12)
    /\ Emits("holman_ws5029pcm") =>
           Field(output[1], "temperature_C") = Tenths12(HolmanPcmTemp12)
    /\ Emits("holman_ws5029pwm") =>
           Field(output[1], "temperature_C") = Tenths12(HolmanPwmTemp12)

\* the Calibeur decoder has returned
CalibeurDone == pc = "done" /\ decoder.name = "calibeur_RF104"

\* row 1 has 21 bits and rows 1 and 2 agree in their first 3 bytes
CalibeurRepeated ==
    /\ Len(input) >= 3
    /\ input[2].len = 21
    /\ \A i \in 1..3 : input[2].bytes[i] = input[3].bytes[i]

\* crc8 with polynomial 0x80 and init 0 over the first 3 bytes of row 1
CalibeurCrc == crc8(SubSeq(input[2].bytes, 1, 3), 3, 128, 0)

\* exactly one of the first 3 bytes differs between rows 1 and 2
CalibeurOneByteDiffers ==
    /\ Len(input) >= 3
    /\ Len(input[2].bytes) >= 3
    /\ Len(input[3].bytes) >= 3
    /\ Cardinality({ i \in 1..3 : input[2].bytes[i] # input[3].bytes[i] }) = 1

\* C15, as the code has it: when row 1 has 21 bits, rows 1 and 2 agree in
\* their first 3 bytes and crc8 (polynomial 0x80, init 0) over the first 3
\* bytes of row 1 is not 0, calibeur_rf104_callback emits one Reading with
\* temperature_C and humidity and returns 1; when the crc8 is 0, or when a
\* single byte differs between rows 1 and 2, it emits nothing and returns 0.
C15_Calibeur ==
    CalibeurDone =>
        /\ (CalibeurRepeated /\ CalibeurCrc # 0) =>
               /\ ret = 1
               /\ Len(output) = 1
               /\ HasKey(output[1], "temperature_C")
               /\ HasKey(output[1], "humidity")
        /\ (CalibeurRepeated /\ CalibeurCrc = 0) => (ret = 0 /\ output = <<>>)
        /\ CalibeurOneByteDiffers => (ret = 0 /\ output = <<>>)

\* a packet with a differing byte has been turned down although row 1 alone
\* is valid
C15_Witness ==
    /\ CalibeurDone
    /\ CalibeurOneByteDiffers
    /\ input[2].len = 21
    /\ CalibeurCrc # 0
    /\ ret = 0
    /\ output = <<>>

\* C15 as stated: a repeated 21-bit row whose crc8 is 0 yields a Reading
C15_AsStated ==
    (CalibeurDone /\ CalibeurRepeated /\ CalibeurCrc = 0) =>
        /\ Len(output) = 1
        /\ HasKey(output[1], "temperature_C")
        /\ HasKey(output[1], "humidity")

\* the PCM decoder has returned from a call in which it found the preamble
HolmanPcmChecked ==
    /\ pc = "done"
    /\ decoder.name = "holman_ws5029pcm"
    /\ Len(input) = 1
    /\ input[1].len >= 192
    /\ bitbuffer_search(input[1], 0, holman_pcm_preamble, 48) < input[1].len

\* the bit the payload begins at, and the 18 payload bytes
HolmanPcmPos == bitbuffer_search(input[1], 0, holman_pcm_preamble, 48) + 48

HolmanPcmPayload == bitbuffer_extract_bytes(input[1], HolmanPcmPos, 144)

\* the packet with the upper nibble of payload byte 12 replaced by hi (for a
\* payload that begins at a byte boundary)
HolmanPcmTwin(hi) ==
    LET i == (HolmanPcmPos \div 8) + 13
    IN  IF HolmanPcmPos % 8 = 0
        THEN <<[input[1] EXCEPT !.bytes[i] = 16 * hi + (@ % 16)]>>
        ELSE input

\* C20: holman_ws5029pcm_decode passes the integrity check exactly when the
\* low nibble of the XOR of payload bytes 0..11 equals the low nibble of
\* payload byte 12, and a packet that differs only in the upper nibble of
\* byte 12 gets the same return value and the same Reading.
C20_LowNibbleCheck ==
    HolmanPcmChecked =>
        /\ ret # DECODE_FAIL_MIC <=>
               (BitAnd(xor_bytes(HolmanPcmPayload, 12), 15) = BitAnd(HolmanPcmPayload[13], 15))
        /\ \A hi \in 0..15 :
               holman_ws5029pcm_decode(HolmanPcmTwin(hi))
                   = [ret |-> ret, fault |-> fault, output |-> output]

\* a Reading from a packet whose byte 12 differs from the XOR in its upper
\* nibble
C20_Witness ==
    /\ HolmanPcmChecked
    /\ HolmanPcmPos % 8 = 0
    /\ Len(output) = 1
    /\ HolmanPcmPayload[13] # xor_bytes(HolmanPcmPayload, 12)
    /\ HolmanPcmPayload[13] % 16 = xor_bytes(HolmanPcmPayload, 12) % 16

(***************************************************************************)
(* Properties of every decoder.                                            *)
(***************************************************************************)
\* the keys of the Readings a call has emitted
EmittedKeys == UNION { Keys(output[i]) : i \in DOMAIN output }

\* C21: every key of a Reading a decoder emits is in the output_fields list
\* the decoder registers.
C21_KeysRegistered ==
    (pc = "done" /\ ret > 0) => EmittedKeys \subseteq output_fields(decoder.name)

\* C22: every Reading a decoder emits has a field with the key "model".
C22_ModelField ==
    \A i \in DOMAIN output : HasKey(output[i], "model")

\* every decoder has emitted a Reading, CM921 on its unknown-command path
\* and Holman PCM in both lengths among them
C22_Witness ==
    /\ pc = "done"
    /\ Len(output) >= 1
    /\ HasKey(output[1], "model")
    /\ decoder.name = "honeywell_cm921"
    /\ HasKey(output[1], "unknown")

\* return code, fault, Readings and buffer of a call
Outcome(res, bb) ==
    [ret |-> res.ret, fault |-> res.fault, output |-> res.output, bitbuffer |-> bb]

\* the outcomes decoder `name` has on packet bb with decoder->verbose clear
QuietOutcomes(name, bb) ==
    IF name = "honeywell_cm921"
    THEN { Outcome(honeywell_cm921_decode(bb, abi), bb) : abi \in ABIs }
    ELSE IF name = "holman_ws5029pcm" THEN { Outcome(holman_ws5029pcm_decode(bb), bb) }
    ELSE IF name = "holman_ws5029pwm"
    THEN { Outcome(r, r.bitbuffer) : r \in {holman_ws5029pwm_decode(bb)} }
    ELSE IF name = "auriol_afw2a1"
    THEN { Outcome(auriol_afw2a1_decode(bb, b_wild), bb) : b_wild \in GenWildRows }
    ELSE IF name = "x10_rf" THEN { Outcome(x10_rf_callback(bb), bb) }
    ELSE IF name = "x10_sec" THEN { Outcome(x10_sec_callback(bb), bb) }
    ELSE IF name = "tpms_abarth"
    THEN { Outcome(r, r.bitbuffer) : r \in { tpms_abarth_callback(bb, build) : build \in TpmsBuilds } }
    ELSE IF name = "infactory" THEN { Outcome(infactory_callback(bb), bb) }
    ELSE { Outcome(calibeur_rf104_callback(bb), bb) }

C16_InvertsOnlyWhenAccepted ==
    (/\ pc = "done"
     /\ decoder.name \in {"holman_ws5029pwm", "tpms_abarth"}
     /\ fault = "none"
     /\ (ret \in RejectCodes \/ output = <<>>)) => bitbuffer = input

\* C17: a decoder emits at most one Reading per call.
C17_AtMostOneReading == pc = "done" => Len(output) <= 1

(***************************************************************************)
(* Properties of the bitbuffer functions.                                  *)
(***************************************************************************)
FindRepeatedRowDone == pc = "done" /\ prim.fn = "bitbuffer_find_repeated_row"

\* the place of the one row that differs from the 11 others, 0 when the
\* packet is not 11 identical rows and one other
OddRow ==
    LET odd == { d \in 1..12 :
                   /\ \A i, j \in (1..12) \ {d} : input[i] = input[j]
                   /\ \A i \in (1..12) \ {d} : input[i].bytes # input[d].bytes }
    IN  IF Len(input) = 12 /\ (\A i \in 1..12 : input[i].len = prim.min_bits) /\ odd # {}
        THEN CHOOSE d \in odd : TRUE
        ELSE 0

\* C18: on a packet of 12 rows of the expected length of which 11 are
\* byte-identical and 1 differs, bitbuffer_find_repeated_row with threshold
\* 11 returns the index of one of the 11, and with threshold 12 a negative
\* index.
C18_ElevenOfTwelve ==
    (FindRepeatedRowDone /\ OddRow # 0) =>
        /\ prim.min_repeats = 11 => (ret \in 0..11 /\ ret + 1 # OddRow)
        /\ prim.min_repeats = 12 => ret < 0

\* the odd row is the first one, and the search with threshold 11 has found
\* a row behind it
C18_Witness ==
    /\ FindRepeatedRowDone
    /\ OddRow = 1
    /\ prim.min_repeats = 11
    /\ ret = 1

ManchesterDecodeDone == pc = "done" /\ prim.fn = "bitbuffer_manchester_decode"

\* C19: decoding the Manchester code (10 for 1, 01 for 0) of a bit sequence
\* from the offset the code starts at yields the sequence, and no pair of the
\* code is found invalid: the decoder gets to the end of the code.
C19_DecodeInvertsEncode ==
    ManchesterDecodeDone =>
        /\ prim.out = BitsToRow(prim.sent)
        /\ prim.pos >= prim.start + 2 * Len(prim.sent)

\* a code of MaxManchesterBits bits that holds both pairs, behind a lead of
\* 3 bits, has been decoded
C19_Witness ==
    /\ ManchesterDecodeDone
    /\ Len(prim.sent) = MaxManchesterBits
    /\ {prim.sent[i] : i \in 1..Len(prim.sent)} = {0, 1}
    /\ prim.start = 3
    /\ prim.out.len = MaxManchesterBits

\* C4: the byte-sum check accepts a region exactly when the sum of all its
\* bytes, the trailing checksum byte included, is 0 modulo 256, and an
\* accepted region with any single byte replaced by a different value fails
\* the check.
C4_ByteSum ==
    pc = "parsed" =>
        /\ cm.parse.checksum_ok
             <=> (SumSeq(SubSeq(cm.packet.bytes, 1, RegionBytes)) % 256 = 0)
        /\ tamper => ~cm.parse.checksum_ok

\* an accepted region has come again with one byte replaced, and was checked
C4_Witness == pc = "parsed" /\ tamper /\ ~cm.parse.checksum_ok /\ RegionBytes >= 2

\* the bit offsets parse_msg read a byte at: one per next() call, and the
\* start of the residue when there is one
ReadOffsets ==
    {8 * k : k \in 0..((cm.parse.ipos \div 8) - 1)}
    \cup (IF cm.parse.msg.unparsed_length # 0 THEN {cm.parse.ipos} ELSE {})

\* C5: for a checksum-valid region every byte parse_msg reads lies inside the
\* decoded row: offset + 8 <= bits_per_row.
C5_ReadsInsideRow ==
    (MsgDone /\ cm.parse.checksum_ok) =>
        \A off \in ReadOffsets : off + 8 <= cm.packet.len

\* C6: for a checksum-valid region each parsed field equals the bytes of the
\* region it is read from: header, identifier count, identifiers, big-endian
\* command, payload length and payload.
C6_FieldsEqualBytes ==
    (MsgDone /\ cm.parse.checksum_ok /\ fault = "none") =>
        LET m == cm.parse.msg
            n == (RegionByte(0) \div 4) % 4
        IN  /\ m.header = RegionByte(0)
            /\ m.num_device_ids = n
            /\ \A i \in 0..(n - 1) : \A j \in 0..2 :
                   m.device_id[i + 1][j + 1] = RegionByte(1 + 3 * i + j)
            /\ m.command = 256 * RegionByte(1 + 3 * n) + RegionByte(2 + 3 * n)
            /\ m.payload_length = RegionByte(3 + 3 * n)
            /\ \A k \in 0..(m.payload_length - 1) :
                   4 + 3 * n + k < RegionBytes => m.payload[k + 1] = RegionByte(4 + 3 * n + k)

\* C7: unparsed_length is the number of bytes between the end of the payload
\* and the checksum byte.
C7_UnparsedLength ==
    (Interpreted /\ cm.packet.len % 8 = 0 /\ cm.parse.ipos + 8 <= cm.packet.len) =>
        cm.parse.msg.unparsed_length = (cm.packet.len - 8 - cm.parse.ipos) \div 8

\* decode_device_id has returned
DeviceIdDone == pc = "done" /\ decoder.name = "decode_device_id" /\ fault = "none"

C8_Tags ==
    (1 :> "CTL") @@ (2 :> "UFH") @@ (3 :> " 30") @@ (4 :> "TRV") @@ (7 :> "DHW")
    @@ (10 :> "OTB") @@ (12 :> "THm") @@ (13 :> "BDR") @@ (17 :> " 17") @@ (18 :> "HGI")
    @@ (22 :> "THM") @@ (30 :> "GWY") @@ (32 :> "VNT") @@ (34 :> "STA") @@ (63 :> "NUL")

C8_Serial == (did.id[1] % 4) * 65536 + did.id[2] * 256 + did.id[3]

\* the six decimal digits of a serial below 10^6
C8_Digits(serial) == [k \in 1..6 |-> HexDigit[((serial \div (10 ^ (6 - k))) % 10) + 1]]

C8_General ==
    LET t == did.id[1] \div 4
    IN  /\ did.res[1] = (IF t \in DOMAIN C8_Tags THEN C8_Tags[t] ELSE " --")
        /\ did.res[2] = ":"
        /\ SubSeq(did.res, 3, Len(did.res)) = C8_Digits(C8_Serial)

C9_Table ==
    { <<4144, 16>>, <<12607, 1>>, <<12607, 9>>, <<8, 2>>, <<16112, 3>>, <<16112, 6>>,
      <<8969, 3>>, <<4352, 5>>, <<4352, 8>>, <<9, 3>>, <<15104, 2>> }

\* the fields a known command adds
CommandKeys ==
    { "zone_idx", "max_flow_temp", "pump_run_time", "actuator_run_time", "min_flow_temp",
      "time_request", "time", "domain_id", "demand", "status", "boiler_modulation_level",
      "flame_status", "zone", "setpoint", "cycle_rate", "minimum_on_time",
      "minimum_off_time", "proportional_band_width", "device_number", "failsafe_mode",
      "state" }

\* C9: for a (command, payload length) pair outside the table the Reading
\* carries the raw command under "unknown" and no command-specific field; the
\* decode is not rejected and exactly one Reading is emitted.
C9_UnknownPath ==
    (Interpreted /\ <<cm.parse.msg.command, cm.parse.msg.payload_length>> \notin C9_Table) =>
        /\ ret = 1
        /\ Len(output) = 1
        /\ HasKey(output[1], "unknown")
        /\ Field(output[1], "unknown") = DInt(cm.parse.msg.command)
        /\ Keys(output[1]) \cap CommandKeys = {}

\* both ways out of the table: a code it does not have, a length it does not
\* expect
C9_Witness ==
    /\ Interpreted
    /\ Len(output) = 1
    /\ HasKey(output[1], "unknown")
    /\ \/ cm.parse.msg.command = 4660
       \/ cm.parse.msg.command = 4352 /\ cm.parse.msg.payload_length = 6

\* C10: command 0x2309 with payload length 3 yields zone = payload[0] and
\* setpoint = (256 * payload[1] + payload[2]) / 100, so payload [0x01, 0x09,
\* 0xC4] yields zone 1 and setpoint 2500 / 100; with payload length 2 only
\* the "unknown" field with the raw command code is produced.
C10_Setpoint ==
    (Interpreted /\ cm.parse.msg.command = 8969) =>
        LET m == cm.parse.msg
            r == output[1]
        IN  /\ Len(output) = 1
            /\ m.payload_length = 3 =>
                  /\ Field(r, "zone") = DInt(m.payload[1])
                  /\ Field(r, "setpoint") = DDouble(256 * m.payload[2] + m.payload[3], 100)
                  /\ Keys(r) \cap (CommandKeys \cup {"unknown"}) = {"zone", "setpoint"}
            /\ (m.payload_length = 3 /\ m.payload = <<1, 9, 196>>) =>
                  /\ Field(r, "zone") = DInt(1)
                  /\ Field(r, "setpoint") = DDouble(2500, 100)
            /\ m.payload_length = 2 =>
                  /\ Keys(r) \cap (CommandKeys \cup {"unknown"}) = {"unknown"}
                  /\ Field(r, "unknown") = DInt(8969)

C10_Witness ==
    /\ Interpreted
    /\ cm.parse.msg.command = 8969
    /\ cm.parse.msg.payload = <<1, 9, 196>>
    /\ Field(output[1], "setpoint") = DDouble(2500, 100)

(***************************************************************************)
(* SpecMqtt: the MQTT client of output_mqtt.c and the events the           *)
(* connection manager delivers to mqtt_client_event.  A connection gets no *)
(* event after its MG_EV_CLOSE.                                            *)
(***************************************************************************)
\* the connections made in a run
MaxMqttConns == 3

\* connect_status of MG_EV_CONNECT: 0, ECONNREFUSED, ETIMEDOUT
GenStatus == {0, 111, 110}

GenHosts == {<<"broker">>, <<"fe80", ":", ":", "1">>}

\* "[%s]:%s" for a host with a colon in it, "%s:%s" otherwise
mqtt_address(host, port) ==
    IF \E i \in DOMAIN host : host[i] = ":" THEN <<"[">> \o host \o <<"]", ":", port>>
    ELSE host \o <<":", port>>

\* mg_connect_opt(mgr, address, mqtt_client_event, opts) that succeeds
mg_connection(address, user_data) ==
    [address |-> address, user_data |-> user_data, open |-> TRUE, close_immediately |-> FALSE]

\* the connection keeps its user_data when the client is freed
free_keeps_user_data(user_data) == user_data

\* ctx->conn->user_data = NULL
free_user_data(user_data) == FALSE

\* prev_status is set when the connection has failed only
connect_prev_status_on_error(prev_status, connect_status) ==
    IF connect_status # 0 THEN connect_status ELSE prev_status

\* ctx->prev_status = connect_status
connect_prev_status(prev_status, connect_status) == connect_status

\* "Error, print only once": ctx && ctx->prev_status != connect_status, in
\* the else branch of connect_status == 0
connect_error_printed(ctx, prev_status, connect_status) ==
    connect_status # 0 /\ ctx /\ prev_status # connect_status

\* mqtt_client_init: calloc, the address, mg_connect_opt; exit(1) when no
\* connection is made
MqttClientInit ==
    /\ pc = "idle"
    /\ mqtt.ctx = "none"
    /\ \E host \in GenHosts : \E made \in BOOLEAN :
          IF made
          THEN /\ mqtt' = [MqttNone EXCEPT !.ctx = "live",
                                           !.address = mqtt_address(host, "1883"),
                                           !.conn = 1,
                                           !.conns = <<mg_connection(mqtt_address(host, "1883"),
                                                                     TRUE)>>,
                                           !.last = [LastNone EXCEPT !.ev = "init",
                                                                     !.attempts = 1,
                                                                     !.made = 1]]
               /\ UNCHANGED <<pc, fault>>
          ELSE /\ pc' = "done"
               /\ fault' = "exit"
               /\ mqtt' = mqtt
    /\ UNCHANGED <<decoder, input, bitbuffer, ret, output, cm, did, tamper, prim, log, loop>>

\* mqtt_client_event(nc, MG_EV_CONNECT, &connect_status)
EvConnect ==
    /\ pc = "idle"
    /\ \E nc \in DOMAIN mqtt.conns : \E connect_status \in GenStatus :
          /\ mqtt.conns[nc].open
          /\ \E ctx \in {mqtt.conns[nc].user_data} :
                mqtt' = [mqtt EXCEPT
                    !.prev_status = IF ctx THEN connect_prev_status(@, connect_status) ELSE @,
                    !.history = IF ctx THEN connect_status ELSE @,
                    !.last = [LastNone EXCEPT
                        !.ev = "connect", !.nc = nc, !.ctx = ctx, !.status = connect_status,
                        !.prev = mqtt.history,
                        !.error_printed =
                            connect_error_printed(ctx, mqtt.prev_status, connect_status),
                        !.use_after_free = ctx /\ mqtt.ctx # "live"]]
    /\ UNCHANGED <<pc, decoder, input, bitbuffer, ret, fault, output, cm, did, tamper, prim,
                   log, loop>>

\* mqtt_client_event(nc, MG_EV_CLOSE, NULL); the connection is gone after it
EvClose ==
    /\ pc = "idle"
    /\ \E nc \in DOMAIN mqtt.conns : \E made \in BOOLEAN :
          /\ mqtt.conns[nc].open
          /\ \E ctx \in {mqtt.conns[nc].user_data} :
                IF ~ctx
                THEN mqtt' = [mqtt EXCEPT
                         !.conns[nc].open = FALSE,
                         !.last = [LastNone EXCEPT !.ev = "close", !.nc = nc]]
                ELSE /\ Len(mqtt.conns) < MaxMqttConns
                     /\ mqtt' = [mqtt EXCEPT
                            !.conns = IF made
                                      THEN Append([@ EXCEPT ![nc].open = FALSE],
                                                  mg_connection(mqtt.address, ctx))
                                      ELSE [@ EXCEPT ![nc].open = FALSE],
                            !.conn = IF made THEN Len(mqtt.conns) + 1 ELSE 0,
                            !.last = [LastNone EXCEPT
                                !.ev = "close", !.nc = nc, !.ctx = TRUE,
                                !.failed_printed = mqtt.prev_status = 0,
                                !.attempts = 1,
                                !.made = IF made THEN Len(mqtt.conns) + 1 ELSE 0,
                                !.use_after_free = mqtt.ctx # "live"]]
    /\ UNCHANGED <<pc, decoder, input, bitbuffer, ret, fault, output, cm, did, tamper, prim,
                   log, loop>>

\* mqtt_client_free(ctx)
MqttClientFree ==
    /\ pc = "idle"
    /\ mqtt.ctx = "live"
    /\ mqtt' = [mqtt EXCEPT
           !.ctx = "freed",
           !.conns = IF mqtt.conn # 0
                     THEN [@ EXCEPT ![mqtt.conn].user_data = free_user_data(@),
                                    ![mqtt.conn].close_immediately = TRUE]
                     ELSE @,
           !.last = [LastNone EXCEPT !.ev = "free"]]
    /\ UNCHANGED <<pc, decoder, input, bitbuffer, ret, fault, output, cm, did, tamper, prim,
                   log, loop>>

\* the process ends: after exit(1), or when the client is freed and its
\* connections are closed
MqttExit ==
    /\ pc = "idle"
    /\ mqtt.ctx = "freed"
    /\ \A nc \in DOMAIN mqtt.conns : ~mqtt.conns[nc].open
    /\ pc' = "done"
    /\ UNCHANGED <<decoder, input, bitbuffer, ret, fault, output, cm, did, tamper, prim, log,
                   loop, mqtt>>

NextMqtt ==
    \/ MqttClientInit
    \/ EvConnect
    \/ EvClose
    \/ MqttClientFree
    \/ MqttExit
    \/ Return

SpecMqtt == Idle /\ [][NextMqtt]_vars

\* the first bit behind the preamble of the CM921 row
StripStart == bitbuffer_search(input[1], 0, preamble_pattern, 30) + 30

\* every loop has done no more iterations than the row has bits: the frame
\* loop is at start + 10 * iter, the footer scan is at or above the header
\* byte at bit 16, the tpms search is at or behind 2 * iter
LoopBounded ==
    /\ loop.name = "strip" =>
          /\ loop.pos = StripStart + 10 * loop.iter
          /\ 10 * loop.iter <= bitbuffer[1].len
          /\ cm.bytes.len = 8 * loop.iter
    /\ loop.name = "footer" =>
          /\ loop.pos >= 16
          /\ loop.pos = cm.bytes.len - 8 - 8 * loop.iter
          /\ 10 * loop.iter <= bitbuffer[1].len
    /\ loop.name = "tpms" =>
          /\ loop.pos >= 2 * loop.iter
          /\ loop.iter <= RowAt(bitbuffer, 0).len

\* an iteration of the tpms loop leaves bitpos greater than it was, an
\* iteration of the frame loop 10 greater, one of the footer scan 8 less
LoopAdvances ==
    (loop.name = loop'.name /\ loop'.iter = loop.iter + 1) =>
        /\ loop.name = "tpms" => loop'.pos > loop.pos
        /\ loop.name = "strip" => loop'.pos = loop.pos + 10
        /\ loop.name = "footer" => loop'.pos = loop.pos - 8 /\ loop'.pos >= 0

\* C24: every call that enters the frame loop, the footer scan or the tpms
\* search loop leaves it for the straight-line code behind it: the
\* iterations are bounded by the length of the row, the footer scan never
\* reads below the header, the tpms bitpos grows with every iteration
C24_LoopsTerminate ==
    /\ []LoopBounded
    /\ [][LoopAdvances]_vars
    /\ (pc = "loop") ~> (pc \in {"tail", "done"})

C24_Witness ==
    /\ pc = "done"
    /\ \/ loop.name = "footer" /\ loop.iter >= 2 /\ ret = 1
       \/ loop.name = "tpms" /\ loop.iter >= 2

\* the call has decoded the Manchester code: the header and the footer were
\* found
ManchesterStageRun ==
    /\ pc = "done"
    /\ loop.name = "footer"
    /\ loop.iter >= 1
    /\ bitrow_get_byte(cm.bytes.bytes, loop.pos) = 53

\* the bits of pair k of the region behind the header
RegionPair(k) ==
    <<bitrow_get_bit(cm.bytes.bytes, 24 + 2 * k), bitrow_get_bit(cm.bytes.bytes, 24 + 2 * k + 1)>>

RegionPairs == (loop.pos - 24) \div 2

RegionValid == \A k \in 0..(RegionPairs - 1) : RegionPair(k) \in {<<1, 0>>, <<0, 1>>}

\* C25: the Manchester stage of the CM921 decoder covers the bits from 24 to
\* the footer at fi: when every pair in them is valid, the packet holds the
\* (fi - 24)/2 bits they code and man_errors is 0; when a pair is invalid,
\* man_errors is not 0
C25_ManchesterRegion ==
    ManchesterStageRun =>
        /\ cm.fi = loop.pos
        /\ RegionValid =>
              /\ cm.man_errors = 0
              /\ cm.packet = BitsToRow([k \in 1..RegionPairs |-> RegionPair(k - 1)[1]])
        /\ ~RegionValid => cm.man_errors # 0

C25_Witness ==
    /\ ManchesterStageRun
    /\ RegionValid
    /\ RegionPairs >= 16
    /\ cm.packet.len = RegionPairs
    /\ cm.man_errors = 0

\* a call that met an invalid pair in the region
C25_InvalidPair ==
    /\ ManchesterStageRun
    /\ ~RegionValid
    /\ cm.man_errors > 0

\* the PWM decoder has got to its checksum: a row of 96 bits three times,
\* with the preamble
HolmanPwmChecked ==
    /\ pc = "done"
    /\ decoder.name = "holman_ws5029pwm"
    /\ bitbuffer_find_repeated_row(input, 3, 96) >= 0
    /\ RowAt(input, bitbuffer_find_repeated_row(input, 3, 96)).len = 96
    /\ RowBytes(RowAt(input, bitbuffer_find_repeated_row(input, 3, 96)), 3) = holman_pwm_preamble

\* the low nibble of the XOR of the first 11 bytes of the inverted row
HolmanPwmInvertedNibble ==
    LET r == bitbuffer_find_repeated_row(input, 3, 96)
        b == RowAt(bitbuffer_invert(input), r).bytes
    IN  BitAnd(xor_bytes(SubSeq(b, 1, 11), 11), 15)

\* C26: the checksum test of the Holman PWM decoder, made on the row as
\* received, lets through the rows whose inverted form has an XOR of the
\* first 11 bytes with low nibble 0, and no others
C26_ChecksumOfInverted ==
    HolmanPwmChecked =>
        /\ ret \in {1, DECODE_FAIL_MIC}
        /\ (ret = 1) <=> (HolmanPwmInvertedNibble = 0)

C26_Witness ==
    /\ HolmanPwmChecked
    /\ ret = 1
    /\ HolmanPwmInvertedNibble = 0
    /\ Len(output) = 1
    /\ bitbuffer = bitbuffer_invert(input)

\* a row the checksum test has turned down
C26_Rejected ==
    /\ HolmanPwmChecked
    /\ ret = DECODE_FAIL_MIC
    /\ HolmanPwmInvertedNibble # 0

\* the Auriol decoder was called with 12 rows of 36 bits of which no row
\* occurs 12 times
AuriolNoConsensus ==
    /\ pc = "done"
    /\ decoder.name = "auriol_afw2a1"
    /\ Len(input) = 12
    /\ \A r \in 0..11 : RowAt(input, r).len = 36
    /\ bitbuffer_find_repeated_row(input, 12, 36) < 0

\* C27: the Auriol decoder reads a row at a valid index only: called with
\* 12 rows of 36 bits that are not all the same, it returns a rejection and
\* passes no Reading on
C27_RejectsWithoutConsensus ==
    AuriolNoConsensus => (ret <= 0 /\ output = <<>>)

\* the tpms call is over; the row searched is the first row of the inverted
\* packet
TpmsOver == pc = "done" /\ loop.name = "tpms"

\* the places of the row at which the pattern searched for is found with 80
\* bits or more from its start to the end of the row
TpmsMatches ==
    LET row == RowAt(bitbuffer, 0)
    IN  { p \in 0..row.len :
            /\ p + 80 <= row.len
            /\ bitbuffer_search(row, p, Append(tpms_preamble_pattern, loop.build.pad), 24) = p }

\* C28: tpms_abarth_callback returns the number of preamble matches that
\* have 80 bits from their start to the end of the row, and passes on one
\* Reading for each of them, whatever the checksum comparison gives
C28_OneReadingPerMatch ==
    TpmsOver =>
        /\ fault = "none"
        /\ ret = Cardinality(TpmsMatches)
        /\ Len(output) = Cardinality(TpmsMatches)

\* the same for the calls that come to their return
C28_WhenReturning ==
    (TpmsOver /\ fault = "none") =>
        /\ ret = Cardinality(TpmsMatches)
        /\ Len(output) = Cardinality(TpmsMatches)

\* C29: an MG_EV_CLOSE on a connection that holds the live client makes one
\* mg_connect_opt call, to the stored address and with the same client; once
\* mqtt_client_free has run, no open connection holds the client, an
\* MG_EV_CLOSE or MG_EV_CONNECT makes no connection and reads no freed client
C29_ReconnectWhileLive ==
    /\ ~mqtt.last.use_after_free
    /\ (mqtt.last.ev = "close" /\ mqtt.last.ctx) =>
          /\ mqtt.ctx = "live"
          /\ mqtt.last.attempts = 1
          /\ mqtt.conn = mqtt.last.made
          /\ mqtt.last.made # 0 =>
                /\ mqtt.last.made = Len(mqtt.conns)
                /\ mqtt.conns[mqtt.last.made] = mg_connection(mqtt.conns[1].address, TRUE)
    /\ (mqtt.last.ev \in {"close", "connect"} /\ ~mqtt.last.ctx) =>
          /\ mqtt.last.attempts = 0
          /\ mqtt.last.made = 0
    /\ mqtt.ctx = "freed" =>
          /\ \A nc \in DOMAIN mqtt.conns : mqtt.conns[nc].open => ~mqtt.conns[nc].user_data
          /\ mqtt.last.ev \in {"close", "connect"} => ~mqtt.last.ctx
    /\ mqtt.last.ev = "close" => ~mqtt.conns[mqtt.last.nc].open

\* the second reconnect of a run
C29_Witness ==
    /\ mqtt.last.ev = "close"
    /\ mqtt.last.ctx
    /\ mqtt.last.made = 3
    /\ mqtt.conns[3].user_data
    /\ ~mqtt.conns[1].open /\ ~mqtt.conns[2].open

\* an MG_EV_CLOSE on the connection of a freed client
C29_ClosedAfterFree ==
    /\ mqtt.ctx = "freed"
    /\ mqtt.last.ev = "close"
    /\ mqtt.last.nc = 2
    /\ ~mqtt.last.ctx
    /\ Len(mqtt.conns) = 2

\* C30: a connect error is printed when the status of an MG_EV_CONNECT is
\* not 0 and is not the status of the connect event before it, and then only;
\* every connect event records its status, so that of a run of connect events
\* with the same failing status the first alone is printed
C30_ErrorPrintedOnce ==
    /\ (mqtt.last.ev = "connect" /\ mqtt.last.ctx) =>
          /\ mqtt.last.error_printed <=>
                (mqtt.last.status # 0 /\ mqtt.last.status # mqtt.last.prev)
          /\ mqtt.prev_status = mqtt.last.status
    /\ (mqtt.last.ev = "connect" /\ ~mqtt.last.ctx) => ~mqtt.last.error_printed
    /\ mqtt.prev_status = mqtt.history

\* the second of two connect events with the same failing status, on the
\* connection made by a reconnect
C30_Witness ==
    /\ mqtt.last.ev = "connect"
    /\ mqtt.last.ctx
    /\ mqtt.last.nc = 2
    /\ mqtt.last.status = 111
    /\ mqtt.last.prev = 111
    /\ ~mqtt.last.error_printed

\* a failing status behind a successful connection is printed again
C30_PrintedAgain ==
    /\ mqtt.last.ev = "connect"
    /\ mqtt.last.ctx
    /\ mqtt.last.status = 111
    /\ mqtt.last.prev = 0
    /\ mqtt.last.error_printed
    /\ Len(mqtt.conns) >= 2

====
